---------------------------- MODULE Spec2Model ----------------------------
(***************************************************************************)
(* godock: the log-stream demultiplexer (LogCopier over stdcopy.StdCopy), *)
(* the interactive terminal session (terminal.Session and                  *)
(* Client.ContainerExecAttachTerminal), the JSON record-stream consumers  *)
(* (Client.PullImage, Client.ContainerGetStatsChan), the log tee           *)
(* (Client.GetContainerLogs), the run calls (Client.RunAndWait, RunAsync), *)
(* the typed errors of package errdefs, the functional options of          *)
(* container.ContainerConfig, and Client.ContainerCreate/ContainerStart.   *)
(*                                                                         *)
(* Each component has its own initial predicate and next-state relation;   *)
(* the variables of the components a specification does not run stay at    *)
(* their idle values.                                                      *)
(***************************************************************************)
EXTENDS Integers, Sequences, FiniteSets, TLC

VARIABLES
    \* ---- demultiplexer (LogCopier)
    lcArgs,      \* the sinks given to NewLogCopier: [stdout |-> sink, stderr |-> sink or Nil]
    lc,          \* the LogCopier: [stdout |-> sink, stderr |-> sink]
    frames,      \* the complete frames the source was built from: <<[tag, payload]>>
    tail,        \* bytes of a further, incomplete frame at the end of the source
    src,         \* the bytes the source delivers
    op,          \* "none" | "Copy" | "CopyWithPrefix": the call made on lc
    env,         \* that call's environment: how the source ends, which sink fails, the prefixes
    ret,         \* the call's result: [written |-> n, err |-> e]
    sinks        \* the bytes each sink holds: [out |-> seq, err |-> seq]

demuxVars == <<lcArgs, lc, frames, tail, src, op, env, ret, sinks>>

VARIABLES
    \* ---- interactive session (terminal.Session and its caller)
    termMode,     \* the mode of the local terminal: "cooked" | "raw"
    origMode,     \* the mode it had before ContainerExecAttachTerminal
    attachRet,    \* ContainerExecAttachTerminal's result: "none" (not called) | "ok" | an error
    hijack,       \* the hijacked connection: "none" | "open" | "closed"
    oldState,     \* Session.oldState: Nil, or the terminal mode saved by NewSession
    startPc,      \* Session.Start: "idle" | "waiting" (at <-errCh) | "returned"
    startRet,     \* Start's result
    taskPc,       \* per copy task: "idle" | "copying" | "sending" (at errCh <- err) | "done"
    taskErr,      \* per copy task: io.Copy's error
    copied,       \* per copy task: the chunks copied so far
    errCh,        \* Start's errCh, a channel of capacity 1: the values buffered
    closeCalls,   \* the calls of Session.Close made by the caller
    restoreCalls, \* the calls of term.Restore made for the session
    restored,     \* the outcome of the latest term.Restore: "none" | "ok" | "failed"
    starts        \* the calls of Session.Start that started copy tasks

sessVars == <<termMode, origMode, attachRet, hijack, oldState, startPc, startRet,
              taskPc, taskErr, copied, errCh, closeCalls, restoreCalls, restored,
              starts>>

VARIABLES
    \* ---- JSON record streams (Client.PullImage, Client.ContainerGetStatsChan)
    items,        \* what the engine encodes into the stream: records, or a malformed value
    jtail,        \* the characters of a further value the stream ends inside of
    body,         \* the characters of the response body
    pullRet,      \* PullImage's result: "none" (not called) | Nil | an error
    imageOut,     \* the status lines PullImage wrote to imageResWriter
    statsRet,     \* ContainerGetStatsChan: "none" (not called) | "ok" | "errEngine"
    prodPc,       \* the producer task: "idle" | "select" | "decoding" | "sending" | "done"
    statsBuf,     \* the characters the producer's decoder has not read yet
    pending,      \* the record the producer is sending on statsCh
    delivered,    \* the records received from statsCh, in order
    statsErrCh,   \* the error channel (capacity 1): the values buffered
    errSent,      \* every value sent on the error channel, in order
    closed,       \* which of "statsCh", "errCh", "body" are closed
    ctxDone,      \* whether the context is done
    consuming     \* whether the consumer still receives from statsCh

streamVars == <<items, jtail, body, pullRet, imageOut, statsRet, prodPc, statsBuf,
                pending, delivered, statsErrCh, errSent, closed, ctxDone, consuming>>

VARIABLES
    \* ---- log tee (Client.GetContainerLogs)
    logsRet,      \* GetContainerLogs: "none" (not called) | "ok" | "errEngine"
    rcData,       \* the chunks the raw log stream rc delivers
    rcEnd,        \* what rc does after them: "EOF" | "ErrRead" | "open" (it stays open, silent)
    rcPos,        \* the chunks read from rc so far
    rcClosed,     \* whether rc was closed
    teePc,        \* the tee task: "idle" | "read" | "pipeWrite" | "pipeWait" | "logWrite" | "done"
    teeErr,       \* io.Copy's error in the tee task
    pipeData,     \* what a blocked pw.Write offers to the reader: <<chunk>>, or <<>>
    pwClosed,     \* whether the pipe's write end was closed
    prClosed,     \* whether the caller closed the returned reader
    callerGot,    \* the chunks the caller read from the returned reader
    callerEOF,    \* whether the caller's read returned io.EOF
    logOut        \* the chunks logResWriter took

logsVars == <<logsRet, rcData, rcEnd, rcPos, rcClosed, teePc, teeErr, pipeData,
              pwClosed, prClosed, callerGot, callerEOF, logOut>>

VARIABLES
    \* ---- terminal size monitor (Session.MonitorSize)
    monPc,        \* per MonitorSize call, its task: "idle" (not called) | "query" | "send" | "done" | "panicked"
    monPending,   \* per task: the value it is sending on resizeCh
    queries,      \* the terminal size queries made so far, in order: [by, ok, width, height]
    resizeClosed, \* resizeCh has been closed
    resizeGot,    \* the values received from resizeCh, in order
    monPanic      \* Nil, or the run-time panic that ended the program

monVars == <<monPc, monPending, queries, resizeClosed, resizeGot, monPanic>>

VARIABLES
    \* ---- Client.RunAndWait and Client.RunAsync on one container config
    runOp,        \* the call made: "none" | "RunAndWait" | "RunAsync"
    runIn,        \* how the engine answers that call's create and start
    runPc,        \* "idle" | "select" (the call, or RunAsync's task, at its select) | "returned"
    runRet,       \* the error the call returned, Nil for none
    cfgId,        \* containerConfig.Id
    engineCalls,  \* the engine calls made, in order
    container,    \* the container: "none" | "running" | "exited"
    ctxErr,       \* ctx.Err(): Nil while the context is live
    statusCh,     \* ContainerWait's status channel: the value ready to be received
    waitErrCh,    \* ContainerWait's error channel: the value ready to be received
    runCase,      \* the case the select took, and the status code it received
    resultCh,     \* RunAsync's resultCh (capacity 1): the values buffered
    resultClosed, \* resultCh has been closed
    asyncGot      \* what RunAsync's caller received from resultCh

runVars == <<runOp, runIn, runPc, runRet, cfgId, engineCalls, container, ctxErr,
             statusCh, waitErrCh, runCase, resultCh, resultClosed, asyncGot>>

VARIABLES
    \* ---- errdefs: an error value, wrapped and tested with errors.Is
    errVal,       \* the error at hand
    errInner,     \* the error the last Wrap was given, NoError before any Wrap
    isTarget,     \* the target of the last errors.Is(errVal, target)
    isGot         \* its result: "none" | "true" | "false"

errVars == <<errVal, errInner, isTarget, isGot>>

VARIABLES
    \* ---- one container.ContainerConfig and the setters passed to its Set*Options methods
    cc,           \* the fields of Options, HostOptions and PlatformOptions
    passed        \* every setter passed so far, in call and argument order

optVars == <<cc, passed>>

VARIABLES
    \* ---- client calls made one after another on one container config
    callCfgId,    \* containerConfig.Id
    callLog       \* the calls made: what was passed, what the engine was asked, what came back

callVars == <<callCfgId, callLog>>

vars == <<demuxVars, sessVars, streamVars, logsVars, monVars, runVars, errVars, optVars, callVars>>

-----------------------------------------------------------------------------
(* Bounds of the model.                                                    *)

\* the most complete frames of a source
MaxFrames == 2

\* the most chunks a copy task of a session moves
MaxChunks == 2

\* the most calls of Session.Close the caller makes itself
MaxCloseCalls == 2

\* the most calls of Session.Start on one session
MaxStarts == 2

\* the most calls of Session.MonitorSize on one session
MaxMonitors == 2

\* the most terminal size queries of a run
MaxQueries == 4

\* the most values the engine encodes into a record stream
MaxRecs == 2

\* the most chunks of a raw log stream
MaxLogChunks == 2

\* the most times an error is wrapped
MaxWrap == 2

\* the most setters passed to the Set*Options methods of one config
MaxSetters == 3

\* the most client calls made on one container config
MaxCalls == 3

\* payload lengths of a frame
PayloadLens == {0, 2}

\* stream tags: 0 stdin, 1 stdout, 2 stderr, 3 systemerr, 4 not a stream type
Tags == 0..4

Nil == "nil"

-----------------------------------------------------------------------------
(* Byte sequences and the frame format.                                    *)

RECURSIVE Concat(_)
\* the concatenation of a sequence of byte sequences
Concat(ss) == IF ss = <<>> THEN <<>> ELSE Head(ss) \o Concat(Tail(ss))

\* binary.BigEndian.PutUint32
PutUint32(n) ==
    << (n \div 16777216) % 256, (n \div 65536) % 256, (n \div 256) % 256, n % 256 >>

\* binary.BigEndian.Uint32
Uint32(b) == b[1] * 16777216 + b[2] * 65536 + b[3] * 256 + b[4]

\* a frame: an 8-byte header (tag, 3 reserved bytes, big-endian length), then the payload
createDockerLogEntry(streamType, content) ==
    <<streamType, 0, 0, 0>> \o PutUint32(Len(content)) \o content

\* the payload of the i-th frame of a source: n bytes no other frame holds
PayloadOf(i, n) == [j \in 1..n |-> 16 * i + j]

FrameSet(i) == { [tag |-> t, payload |-> PayloadOf(i, n)] : t \in Tags, n \in PayloadLens }

RECURSIVE FrameSeqs(_)
\* the sequences of exactly n frames
FrameSeqs(n) ==
    IF n = 0 THEN { <<>> }
    ELSE { Append(fs, f) : fs \in FrameSeqs(n - 1), f \in FrameSet(n) }

EncodeFrames(fs) ==
    Concat([i \in 1..Len(fs) |-> createDockerLogEntry(fs[i].tag, fs[i].payload)])

\* the proper prefixes of a frame's encoding: nothing, or a frame cut in its
\* header or in its payload
Tails(i) ==
    UNION { { SubSeq(createDockerLogEntry(f.tag, f.payload), 1, k) :
                k \in {0, 1, 7} \cup 8..(7 + Len(f.payload)) } : f \in FrameSet(i) }

-----------------------------------------------------------------------------
(* Writers.                                                                *)

\* a sink's Write: a bytes.Buffer takes everything; a failing sink (the tests'
\* errorWriter) takes nothing and returns io.ErrShortWrite
SinkWrite(id, p, sk, bad) ==
    IF id = bad
    THEN [n |-> 0, err |-> "ErrShortWrite", sinks |-> sk]
    ELSE [n |-> Len(p), err |-> Nil, sinks |-> [sk EXCEPT ![id] = @ \o p]]

\* a plausible slip: the count of the prefixed data
prefixWriterWriteCountsPrefix(w, p, sk, bad) ==
    LET prefixedData == w.prefix \o p
        r == SinkWrite(w.writer, prefixedData, sk, bad)
    IN  IF r.err # Nil THEN [n |-> 0, err |-> r.err, sinks |-> r.sinks]
        ELSE [n |-> Len(prefixedData), err |-> Nil, sinks |-> r.sinks]

\* a plausible slip: the error of the underlying writer is not returned
prefixWriterWriteIgnoresError(w, p, sk, bad) ==
    LET prefixedData == w.prefix \o p
        r == SinkWrite(w.writer, prefixedData, sk, bad)
    IN  [n |-> Len(p), err |-> Nil, sinks |-> r.sinks]

\* prefixWriter.Write
prefixWriterWrite(w, p, sk, bad) ==
    LET prefixedData == w.prefix \o p
        r == SinkWrite(w.writer, prefixedData, sk, bad)
    IN  IF r.err # Nil THEN [n |-> 0, err |-> r.err, sinks |-> r.sinks]
        ELSE [n |-> Len(p), err |-> Nil, sinks |-> r.sinks]

\* io.Writer.Write on the destination StdCopy was given
WriterWrite(w, p, sk, bad) ==
    IF w.kind = "prefixWriter" THEN prefixWriterWrite(w, p, sk, bad)
    ELSE SinkWrite(w.writer, p, sk, bad)

PlainWriter(id) == [kind |-> "sink", writer |-> id, prefix |-> <<>>]

-----------------------------------------------------------------------------
(* stdcopy.StdCopy, as LogCopier calls it.                                 *)

stdWriterPrefixLen == 8

RECURSIVE StdCopyLoop(_, _, _, _, _, _, _)
\* one iteration of StdCopy's loop on the unread bytes buf and the rest of
\* the run; srcEnd is what the source returns once its bytes are read
StdCopyLoop(dstout, dsterr, buf, srcEnd, written, sk, bad) ==
    IF Len(buf) < stdWriterPrefixLen
    THEN \* no full header: io.EOF ends the copy, another error is returned
         IF srcEnd = "EOF"
         THEN [written |-> written, err |-> Nil, sinks |-> sk, nr |-> Len(buf)]
         ELSE [written |-> 0, err |-> srcEnd, sinks |-> sk, nr |-> Len(buf)]
    ELSE
      LET stream == buf[1]
          frameSize == Uint32(SubSeq(buf, 5, 8))
      IN
      IF stream > 3
      THEN [written |-> 0, err |-> "UnrecognizedInputHeader", sinks |-> sk, nr |-> Len(buf)]
      ELSE IF Len(buf) < frameSize + stdWriterPrefixLen
      THEN IF srcEnd = "EOF"
           THEN [written |-> written, err |-> Nil, sinks |-> sk, nr |-> Len(buf)]
           ELSE [written |-> 0, err |-> srcEnd, sinks |-> sk, nr |-> Len(buf)]
      ELSE IF stream = 3
      THEN [written |-> written, err |-> "ErrorFromDaemonInStream", sinks |-> sk,
            nr |-> Len(buf)]
      ELSE
        LET out == IF stream = 2 THEN dsterr ELSE dstout
            w == WriterWrite(out, SubSeq(buf, stdWriterPrefixLen + 1,
                                         frameSize + stdWriterPrefixLen), sk, bad)
        IN  IF w.err # Nil
            THEN [written |-> 0, err |-> w.err, sinks |-> w.sinks, nr |-> Len(buf)]
            ELSE IF w.n # frameSize
            THEN [written |-> 0, err |-> "ErrShortWrite", sinks |-> w.sinks, nr |-> Len(buf)]
            ELSE StdCopyLoop(dstout, dsterr,
                             SubSeq(buf, frameSize + stdWriterPrefixLen + 1, Len(buf)),
                             srcEnd, written + w.n, w.sinks, bad)

StdCopy(dstout, dsterr, bytes, srcEnd, sk, bad) ==
    StdCopyLoop(dstout, dsterr, bytes, srcEnd, 0, sk, bad)

-----------------------------------------------------------------------------
(* LogCopier.                                                              *)

\* a plausible slip: a nil stderr gets a destination of its own
NewLogCopierSeparatesNilStderr(stdout, stderr) ==
    [stdout |-> stdout, stderr |-> IF stderr = Nil THEN "err" ELSE stderr]

\* NewLogCopier(stdout, stderr): a nil stderr is replaced by stdout
NewLogCopier(stdout, stderr) ==
    [stdout |-> stdout, stderr |-> IF stderr = Nil THEN stdout ELSE stderr]

\* a plausible slip: the two destinations exchanged
CopyResultSwapped(l, bytes, srcEnd, sk, bad) ==
    StdCopy(PlainWriter(l.stderr), PlainWriter(l.stdout), bytes, srcEnd, sk, bad)

\* a plausible change: bytes left over when the source ends are reported
CopyResultShortReadIsError(l, bytes, srcEnd, sk, bad) ==
    LET r == StdCopy(PlainWriter(l.stdout), PlainWriter(l.stderr), bytes, srcEnd, sk, bad)
    IN  IF r.err = Nil /\ r.nr > 0 THEN [r EXCEPT !.err = "ErrUnexpectedEOF"] ELSE r

\* a plausible slip: an error the stream format itself carries is not passed on
CopyResultDropsFormatError(l, bytes, srcEnd, sk, bad) ==
    LET r == StdCopy(PlainWriter(l.stdout), PlainWriter(l.stderr), bytes, srcEnd, sk, bad)
    IN  IF r.err \in {"ErrorFromDaemonInStream", "UnrecognizedInputHeader"}
        THEN [r EXCEPT !.err = Nil] ELSE r

\* LogCopier.Copy's result
CopyResult(l, bytes, srcEnd, sk, bad) ==
    StdCopy(PlainWriter(l.stdout), PlainWriter(l.stderr), bytes, srcEnd, sk, bad)

\* LogCopier.CopyWithPrefix's result
CopyWithPrefixResult(l, bytes, stdoutPrefix, stderrPrefix, srcEnd, sk, bad) ==
    LET stdout == [kind |-> "prefixWriter", writer |-> l.stdout, prefix |-> stdoutPrefix]
        stderr == [kind |-> "prefixWriter", writer |-> l.stderr, prefix |-> stderrPrefix]
    IN  StdCopy(stdout, stderr, bytes, srcEnd, sk, bad)

EmptySinks == [out |-> <<>>, err |-> <<>>]

NoEnv == [srcEnd |-> "EOF", bad |-> "none", stdoutPrefix |-> <<>>, stderrPrefix |-> <<>>]

NoRet == [written |-> 0, err |-> Nil]

StdoutPrefixes == { <<>>, <<91, 79>> }

StderrPrefixes == { <<91, 69>> }

DemuxInit ==
    /\ lcArgs \in [stdout : {"out"}, stderr : {Nil, "err"}]
    /\ lc = NewLogCopier(lcArgs.stdout, lcArgs.stderr)
    /\ \E n \in 0..MaxFrames :
         /\ frames \in FrameSeqs(n)
         /\ tail \in Tails(n + 1)
    /\ src = EncodeFrames(frames) \o tail
    /\ op = "none"
    /\ env = NoEnv
    /\ ret = NoRet
    /\ sinks = EmptySinks

DemuxIdle ==
    /\ lcArgs = [stdout |-> "out", stderr |-> "err"]
    /\ lc = NewLogCopier(lcArgs.stdout, lcArgs.stderr)
    /\ frames = <<>>
    /\ tail = <<>>
    /\ src = <<>>
    /\ op = "done"
    /\ env = NoEnv
    /\ ret = NoRet
    /\ sinks = EmptySinks

\* written, err := lc.Copy(src)
Copy ==
    /\ op = "none"
    /\ \E srcEnd \in {"EOF", "ErrSource"}, bad \in {"none", "out", "err"} :
         LET r == CopyResult(lc, src, srcEnd, sinks, bad)
         IN  /\ env' = [NoEnv EXCEPT !.srcEnd = srcEnd, !.bad = bad]
             /\ ret' = [written |-> r.written, err |-> r.err]
             /\ sinks' = r.sinks
    /\ op' = "Copy"
    /\ UNCHANGED <<lcArgs, lc, frames, tail, src, sessVars, streamVars, logsVars, monVars, runVars, errVars, optVars, callVars>>

\* written, err := lc.CopyWithPrefix(src, stdoutPrefix, stderrPrefix)
CopyWithPrefix ==
    /\ op = "none"
    /\ \E srcEnd \in {"EOF", "ErrSource"}, bad \in {"none", "out", "err"},
          stdoutPrefix \in StdoutPrefixes, stderrPrefix \in StderrPrefixes :
         LET r == CopyWithPrefixResult(lc, src, stdoutPrefix, stderrPrefix, srcEnd, sinks, bad)
         IN  /\ env' = [srcEnd |-> srcEnd, bad |-> bad,
                        stdoutPrefix |-> stdoutPrefix, stderrPrefix |-> stderrPrefix]
             /\ ret' = [written |-> r.written, err |-> r.err]
             /\ sinks' = r.sinks
    /\ op' = "CopyWithPrefix"
    /\ UNCHANGED <<lcArgs, lc, frames, tail, src, sessVars, streamVars, logsVars, monVars, runVars, errVars, optVars, callVars>>

-----------------------------------------------------------------------------
(* terminal.Session and Client.ContainerExecAttachTerminal.                *)

\* the two copy tasks of Start: remote output -> os.Stdout, stdin -> hijacked connection
Tasks == {"out", "in"}

\* fmt.Errorf("error during I/O: %w", err), named after the error it wraps
ErrDuringIO(err) ==
    IF err = "ErrRead" THEN "error during I/O: ErrRead" ELSE "error during I/O: ErrWrite"

SessionInit ==
    /\ origMode \in {"cooked", "raw"}
    /\ termMode = origMode
    /\ attachRet = "none"
    /\ hijack = "none"
    /\ oldState = Nil
    /\ startPc = "idle"
    /\ startRet = Nil
    /\ taskPc = [t \in Tasks |-> "idle"]
    /\ taskErr = [t \in Tasks |-> Nil]
    /\ copied = [t \in Tasks |-> 0]
    /\ errCh = <<>>
    /\ closeCalls = 0
    /\ restoreCalls = 0
    /\ restored = "none"
    /\ starts = 0

SessionIdle ==
    /\ origMode = "cooked"
    /\ termMode = "cooked"
    /\ attachRet = "none"
    /\ hijack = "none"
    /\ oldState = Nil
    /\ startPc = "idle"
    /\ startRet = Nil
    /\ taskPc = [t \in Tasks |-> "idle"]
    /\ taskErr = [t \in Tasks |-> Nil]
    /\ copied = [t \in Tasks |-> 0]
    /\ errCh = <<>>
    /\ closeCalls = 0
    /\ restoreCalls = 0
    /\ restored = "none"
    /\ starts = 0

\* NewSession: term.MakeRaw saves the mode and switches to raw, or fails and changes nothing
NewSession(makeRawOk) ==
    IF makeRawOk
    THEN [err |-> Nil, oldState |-> termMode, termMode |-> "raw"]
    ELSE [err |-> "ErrMakeRaw", oldState |-> Nil, termMode |-> termMode]

\* a plausible slip: the hijacked connection stays open when NewSession fails
ContainerExecAttachTerminalLeaksConn ==
    /\ attachRet = "none"
    /\ \E execCreateOk \in BOOLEAN, execAttachOk \in BOOLEAN, makeRawOk \in BOOLEAN :
         IF ~execCreateOk
         THEN /\ attachRet' = "errExecCreate"
              /\ UNCHANGED <<hijack, oldState, termMode>>
         ELSE IF ~execAttachOk
         THEN /\ attachRet' = "errExecAttach"
              /\ UNCHANGED <<hijack, oldState, termMode>>
         ELSE LET s == NewSession(makeRawOk)
              IN  /\ attachRet' = IF s.err # Nil THEN "errSession" ELSE "ok"
                  /\ hijack' = "open"
                  /\ oldState' = s.oldState
                  /\ termMode' = s.termMode
    /\ UNCHANGED <<origMode, startPc, startRet, taskPc, taskErr, copied, errCh,
                   closeCalls, starts, restoreCalls, restored,
                   demuxVars, streamVars, logsVars, monVars, runVars, errVars, optVars, callVars>>

\* session, err := client.ContainerExecAttachTerminal(ctx, containerConfig, execConfig)
ContainerExecAttachTerminal ==
    /\ attachRet = "none"
    /\ \E execCreateOk \in BOOLEAN, execAttachOk \in BOOLEAN, makeRawOk \in BOOLEAN :
         IF ~execCreateOk
         THEN /\ attachRet' = "errExecCreate"
              /\ UNCHANGED <<hijack, oldState, termMode>>
         ELSE IF ~execAttachOk
         THEN /\ attachRet' = "errExecAttach"
              /\ UNCHANGED <<hijack, oldState, termMode>>
         ELSE LET s == NewSession(makeRawOk)
              IN  /\ attachRet' = IF s.err # Nil THEN "errSession" ELSE "ok"
                  /\ hijack' = IF s.err # Nil THEN "closed" ELSE "open"
                  /\ oldState' = s.oldState
                  /\ termMode' = s.termMode
    /\ UNCHANGED <<origMode, startPc, startRet, taskPc, taskErr, copied, errCh,
                   closeCalls, starts, restoreCalls, restored,
                   demuxVars, streamVars, logsVars, monVars, runVars, errVars, optVars, callVars>>

\* Session.Close: term.Restore(oldState) when oldState is set; restoreOk is
\* whether that call succeeds. oldState is left as it is.
Close(restoreOk) ==
    IF oldState # Nil
    THEN /\ restoreCalls' = restoreCalls + 1
         /\ restored' = IF restoreOk THEN "ok" ELSE "failed"
         /\ termMode' = IF restoreOk THEN oldState ELSE termMode
    ELSE UNCHANGED <<restoreCalls, restored, termMode>>

\* Session.Start up to its receive: the deferred Close is registered, a new
\* errCh is made and two copy tasks are started. Start tests nothing, so it
\* runs the same on a session whose Start has returned or that was closed;
\* taskPc, taskErr, copied and errCh are then those of the latest Start (the
\* tasks of an earlier Start keep the channel of that Start).
StartBegin ==
    /\ attachRet = "ok"
    /\ startPc \in {"idle", "returned"}
    /\ starts < MaxStarts
    /\ starts' = starts + 1
    /\ startPc' = "waiting"
    /\ errCh' = <<>>
    /\ taskPc' = [t \in Tasks |-> "copying"]
    /\ taskErr' = [t \in Tasks |-> Nil]
    /\ copied' = [t \in Tasks |-> 0]
    /\ UNCHANGED <<termMode, origMode, attachRet, hijack, oldState, startRet,
                   closeCalls, restoreCalls, restored,
                   demuxVars, streamVars, logsVars, monVars, runVars, errVars, optVars, callVars>>

\* a copy task moves one more chunk from its source to its destination
TaskCopyChunk(t) ==
    /\ taskPc[t] = "copying"
    /\ copied[t] < MaxChunks
    /\ copied' = [copied EXCEPT ![t] = @ + 1]
    /\ UNCHANGED <<termMode, origMode, attachRet, hijack, oldState, startPc, startRet,
                   taskPc, taskErr, errCh, closeCalls, starts, restoreCalls, restored,
                   demuxVars, streamVars, logsVars, monVars, runVars, errVars, optVars, callVars>>

\* io.Copy returns: nil at the source's EOF, the error of a failed read or write
TaskCopyEnds(t) ==
    /\ taskPc[t] = "copying"
    /\ \E err \in {Nil, "ErrRead", "ErrWrite"} : taskErr' = [taskErr EXCEPT ![t] = err]
    /\ taskPc' = [taskPc EXCEPT ![t] = "sending"]
    /\ UNCHANGED <<termMode, origMode, attachRet, hijack, oldState, startPc, startRet,
                   copied, errCh, closeCalls, starts, restoreCalls, restored,
                   demuxVars, streamVars, logsVars, monVars, runVars, errVars, optVars, callVars>>

\* a variant with errCh unbuffered: a send completes only while Start is
\* still at its receive
TaskSendUnbuffered(t) ==
    /\ taskPc[t] = "sending"
    /\ startPc = "waiting"
    /\ Len(errCh) < 1
    /\ errCh' = Append(errCh, taskErr[t])
    /\ taskPc' = [taskPc EXCEPT ![t] = "done"]
    /\ UNCHANGED <<termMode, origMode, attachRet, hijack, oldState, startPc, startRet,
                   taskErr, copied, closeCalls, starts, restoreCalls, restored,
                   demuxVars, streamVars, logsVars, monVars, runVars, errVars, optVars, callVars>>

\* errCh <- err: possible while the channel's buffer has room
TaskSend(t) ==
    /\ taskPc[t] = "sending"
    /\ Len(errCh) < 1
    /\ errCh' = Append(errCh, taskErr[t])
    /\ taskPc' = [taskPc EXCEPT ![t] = "done"]
    /\ UNCHANGED <<termMode, origMode, attachRet, hijack, oldState, startPc, startRet,
                   taskErr, copied, closeCalls, starts, restoreCalls, restored,
                   demuxVars, streamVars, logsVars, monVars, runVars, errVars, optVars, callVars>>

\* a plausible slip: Start collects the result of both copy tasks
StartFinishWaitsForBoth ==
    /\ startPc = "waiting"
    /\ errCh # <<>>
    /\ \A t \in Tasks : taskPc[t] \in {"sending", "done"}
    /\ startRet' = IF Head(errCh) # Nil THEN ErrDuringIO(Head(errCh)) ELSE Nil
    /\ errCh' = Tail(errCh)
    /\ \E restoreOk \in BOOLEAN : Close(restoreOk)
    /\ startPc' = "returned"
    /\ UNCHANGED <<origMode, attachRet, hijack, oldState, taskPc, taskErr, copied,
                   closeCalls, starts,
                   demuxVars, streamVars, logsVars, monVars, runVars, errVars, optVars, callVars>>

\* a plausible slip: Start reports the error of any task whose copy has ended
StartFinishReportsAnyError ==
    /\ startPc = "waiting"
    /\ errCh # <<>>
    /\ LET failed == {t \in Tasks : taskPc[t] \in {"sending", "done"} /\ taskErr[t] # Nil}
       IN  startRet' = IF failed # {}
                       THEN ErrDuringIO(taskErr[CHOOSE t \in failed : TRUE])
                       ELSE Nil
    /\ errCh' = Tail(errCh)
    /\ \E restoreOk \in BOOLEAN : Close(restoreOk)
    /\ startPc' = "returned"
    /\ UNCHANGED <<origMode, attachRet, hijack, oldState, taskPc, taskErr, copied,
                   closeCalls, starts,
                   demuxVars, streamVars, logsVars, monVars, runVars, errVars, optVars, callVars>>

\* a plausible slip: Start returns without the deferred Close
StartFinishNoDefer ==
    /\ startPc = "waiting"
    /\ errCh # <<>>
    /\ startRet' = IF Head(errCh) # Nil THEN ErrDuringIO(Head(errCh)) ELSE Nil
    /\ errCh' = Tail(errCh)
    /\ startPc' = "returned"
    /\ UNCHANGED <<origMode, attachRet, hijack, oldState, taskPc, taskErr, copied,
                   closeCalls, starts, restoreCalls, restored, termMode,
                   demuxVars, streamVars, logsVars, monVars, runVars, errVars, optVars, callVars>>

\* Session.Start from its receive on: err := <-errCh, the result, and the
\* deferred Close (whose own result is dropped) before the caller goes on
StartFinish ==
    /\ startPc = "waiting"
    /\ errCh # <<>>
    /\ startRet' = IF Head(errCh) # Nil THEN ErrDuringIO(Head(errCh)) ELSE Nil
    /\ errCh' = Tail(errCh)
    /\ \E restoreOk \in BOOLEAN : Close(restoreOk)
    /\ startPc' = "returned"
    /\ UNCHANGED <<origMode, attachRet, hijack, oldState, taskPc, taskErr, copied,
                   closeCalls, starts,
                   demuxVars, streamVars, logsVars, monVars, runVars, errVars, optVars, callVars>>

\* the caller's own session.Close(), before or after Start (examples/exec defers it)
CallerClose ==
    /\ attachRet = "ok"
    /\ startPc # "waiting"
    /\ closeCalls < MaxCloseCalls
    /\ closeCalls' = closeCalls + 1
    /\ \E restoreOk \in BOOLEAN : Close(restoreOk)
    /\ UNCHANGED <<origMode, attachRet, hijack, oldState, startPc, startRet, taskPc,
                   taskErr, copied, errCh, starts,
                   demuxVars, streamVars, logsVars, monVars, runVars, errVars, optVars, callVars>>

-----------------------------------------------------------------------------
(* JSON record streams: encoding/json's Decoder over a response body.      *)
(* A body is a sequence of characters: "{" "}" "," and "n" (white space),  *)
(* and one character per member: "s" a non-empty status, "e" a non-empty   *)
(* error, "z" an error that is the empty string.                           *)

\* the records of a stream: ImageProgress' status and error fields
RecSet == [status : {"", "pulling"}, error : {"", "boom"}]

\* a value that is not valid JSON
Malformed == [status |-> "malformed", error |-> ""]

EmptyRec == [status |-> "", error |-> ""]

\* the engine's encoding of a record (empty fields are left out), a line each
EncodeRec(r) ==
    <<"{">>
    \o (IF r.status # "" THEN <<"s">> ELSE <<>>)
    \o (IF r.status # "" /\ r.error # "" THEN <<",">> ELSE <<>>)
    \o (IF r.error # "" THEN <<"e">> ELSE <<>>)
    \o <<"}", "n">>

EncodeItem(it) == IF it = Malformed THEN <<"{", ",", "}", "n">> ELSE EncodeRec(it)

EncodeItems(its) == Concat([i \in 1..Len(its) |-> EncodeItem(its[i])])

RECURSIVE ItemSeqs(_)
ItemSeqs(n) ==
    IF n = 0 THEN { <<>> }
    ELSE { Append(its, it) : its \in ItemSeqs(n - 1), it \in RecSet \cup {Malformed} }

\* the ways a body ends inside a value: a record's encoding cut before its "}"
JTails ==
    { <<>> } \cup
    UNION { { SubSeq(EncodeRec(r), 1, k) : k \in 1..(Len(EncodeRec(r)) - 2) } : r \in RecSet }

\* a member's effect on the decoded struct
SetMember(rec, c) ==
    IF c = "s" THEN [rec EXCEPT !.status = "pulling"]
    ELSE IF c = "e" THEN [rec EXCEPT !.error = "boom"]
    ELSE [rec EXCEPT !.error = ""]

RECURSIVE ScanObject(_, _, _)
\* the scanner inside an object: st is "first" (after "{"), "member" (after ",")
\* or "after" (after a member)
ScanObject(b, rec, st) ==
    IF b = <<>> THEN [err |-> "ErrUnexpectedEOF", rec |-> rec, rest |-> <<>>]
    ELSE LET c == Head(b) IN
      IF c = "n" THEN ScanObject(Tail(b), rec, st)
      ELSE IF c \in {"s", "e", "z"} /\ st \in {"first", "member"}
      THEN ScanObject(Tail(b), SetMember(rec, c), "after")
      ELSE IF c = "," /\ st = "after" THEN ScanObject(Tail(b), rec, "member")
      ELSE IF c = "}" /\ st \in {"first", "after"}
      THEN [err |-> Nil, rec |-> rec, rest |-> Tail(b)]
      ELSE [err |-> "SyntaxError", rec |-> rec, rest |-> Tail(b)]

RECURSIVE SkipSpace(_)
SkipSpace(b) == IF b # <<>> /\ Head(b) = "n" THEN SkipSpace(Tail(b)) ELSE b

\* json.Decoder.Decode: the next value of the body, io.EOF when only white
\* space is left, io.ErrUnexpectedEOF when the body ends inside a value
Decode(buf) ==
    LET b == SkipSpace(buf) IN
    IF b = <<>> THEN [err |-> "EOF", rec |-> EmptyRec, rest |-> <<>>]
    ELSE IF Head(b) # "{" THEN [err |-> "SyntaxError", rec |-> EmptyRec, rest |-> Tail(b)]
    ELSE ScanObject(Tail(b), EmptyRec, "first")

StreamInit ==
    /\ \E n \in 0..MaxRecs : items \in ItemSeqs(n)
    /\ jtail \in JTails
    /\ body = EncodeItems(items) \o jtail
    /\ pullRet = "none"
    /\ imageOut = <<>>
    /\ statsRet = "none"
    /\ prodPc = "idle"
    /\ statsBuf = <<>>
    /\ pending = EmptyRec
    /\ delivered = <<>>
    /\ statsErrCh = <<>>
    /\ errSent = <<>>
    /\ closed = {}
    /\ ctxDone = FALSE
    /\ consuming = TRUE

StreamIdle ==
    /\ items = <<>>
    /\ jtail = <<>>
    /\ body = <<>>
    /\ pullRet = "none"
    /\ imageOut = <<>>
    /\ statsRet = "none"
    /\ prodPc = "idle"
    /\ statsBuf = <<>>
    /\ pending = EmptyRec
    /\ delivered = <<>>
    /\ statsErrCh = <<>>
    /\ errSent = <<>>
    /\ closed = {}
    /\ ctxDone = FALSE
    /\ consuming = TRUE

RECURSIVE PullImageLoopIgnoresErrorField(_, _)
\* a plausible slip: the record's error field is not looked at
PullImageLoopIgnoresErrorField(buf, out) ==
    LET d == Decode(buf) IN
    IF d.err # Nil
    THEN IF d.err = "EOF" THEN [err |-> Nil, out |-> out]
         ELSE [err |-> d.err, out |-> out]
    ELSE PullImageLoopIgnoresErrorField(d.rest,
             IF d.rec.status # "" THEN Append(out, d.rec.status) ELSE out)

RECURSIVE PullImageLoopEOFIsError(_, _)
\* a plausible slip: io.EOF is returned like any other decode error
PullImageLoopEOFIsError(buf, out) ==
    LET d == Decode(buf) IN
    IF d.err # Nil THEN [err |-> d.err, out |-> out]
    ELSE IF d.rec.error # "" THEN [err |-> "PullError", out |-> out]
    ELSE PullImageLoopEOFIsError(d.rest,
             IF d.rec.status # "" THEN Append(out, d.rec.status) ELSE out)

RECURSIVE PullImageLoop(_, _)
\* PullImage's decode loop on the unread body buf; out is what imageResWriter holds
PullImageLoop(buf, out) ==
    LET d == Decode(buf) IN
    IF d.err # Nil
    THEN IF d.err = "EOF" THEN [err |-> Nil, out |-> out]
         ELSE [err |-> d.err, out |-> out]
    ELSE IF d.rec.error # "" THEN [err |-> "PullError", out |-> out]
    ELSE PullImageLoop(d.rest,
             IF d.rec.status # "" THEN Append(out, d.rec.status) ELSE out)

\* err := client.PullImage(ctx, imageConfig)
PullImage ==
    /\ pullRet = "none"
    /\ \E imagePullOk \in BOOLEAN :
         IF ~imagePullOk
         THEN pullRet' = "ErrEngine" /\ UNCHANGED imageOut
         ELSE LET r == PullImageLoop(body, imageOut)
              IN  pullRet' = r.err /\ imageOut' = r.out
    /\ UNCHANGED <<items, jtail, body, statsRet, prodPc, statsBuf, pending, delivered,
                   statsErrCh, errSent, closed, ctxDone, consuming,
                   demuxVars, sessVars, logsVars, monVars, runVars, errVars, optVars, callVars>>

\* statsCh, errCh := client.ContainerGetStatsChan(ctx, containerConfig): the
\* engine call, and on success the two channels and the producer task
ContainerGetStatsChan ==
    /\ statsRet = "none"
    /\ \E containerStatsOk \in BOOLEAN :
         IF ~containerStatsOk
         THEN /\ statsRet' = "errEngine"
              /\ statsErrCh' = <<"ErrEngine">>
              /\ errSent' = <<"ErrEngine">>
              /\ closed' = {"errCh"}
              /\ UNCHANGED <<prodPc, statsBuf>>
         ELSE /\ statsRet' = "ok"
              /\ prodPc' = "select"
              /\ statsBuf' = body
              /\ UNCHANGED <<statsErrCh, errSent, closed>>
    /\ UNCHANGED <<items, jtail, body, pullRet, imageOut, pending, delivered,
                   ctxDone, consuming, demuxVars, sessVars, logsVars, monVars, runVars, errVars, optVars, callVars>>

\* the producer's deferred calls: statsRes.Body.Close(), close(errCh), close(statsCh)
ProducerReturn ==
    /\ prodPc' = "done"
    /\ closed' = closed \cup {"body", "errCh", "statsCh"}

\* the producer's select: a done context ends the task, otherwise it decodes
ProducerSelect ==
    /\ prodPc = "select"
    /\ IF ctxDone
       THEN ProducerReturn
       ELSE prodPc' = "decoding" /\ UNCHANGED closed
    /\ UNCHANGED <<items, jtail, body, pullRet, imageOut, statsRet, statsBuf, pending,
                   delivered, statsErrCh, errSent, ctxDone, consuming,
                   demuxVars, sessVars, logsVars, monVars, runVars, errVars, optVars, callVars>>

\* a plausible slip: io.EOF is sent on the error channel like any decode error
ProducerDecodeEOFIsError ==
    /\ prodPc = "decoding"
    /\ \E d \in {Decode(statsBuf)} \cup
                (IF ctxDone THEN {[err |-> "ErrContext", rec |-> EmptyRec, rest |-> statsBuf]}
                 ELSE {}) :
         IF d.err # Nil
         THEN /\ statsErrCh' = Append(statsErrCh, d.err)
              /\ errSent' = Append(errSent, d.err)
              /\ ProducerReturn
              /\ UNCHANGED <<statsBuf, pending>>
         ELSE /\ pending' = d.rec
              /\ statsBuf' = d.rest
              /\ prodPc' = "sending"
              /\ UNCHANGED <<statsErrCh, errSent, closed>>
    /\ UNCHANGED <<items, jtail, body, pullRet, imageOut, statsRet, delivered,
                   ctxDone, consuming, demuxVars, sessVars, logsVars, monVars, runVars, errVars, optVars, callVars>>

\* a variant in which the task goes on with its loop after sending an error
ProducerDecodeGoesOnAfterError ==
    /\ prodPc = "decoding"
    /\ \E d \in {Decode(statsBuf)} \cup
                (IF ctxDone THEN {[err |-> "ErrContext", rec |-> EmptyRec, rest |-> statsBuf]}
                 ELSE {}) :
         IF d.err # Nil
         THEN /\ IF d.err # "EOF"
                 THEN /\ Len(statsErrCh) < 1
                      /\ statsErrCh' = Append(statsErrCh, d.err)
                      /\ errSent' = Append(errSent, d.err)
                      /\ statsBuf' = d.rest
                      /\ prodPc' = "sending"
                      /\ UNCHANGED closed
                 ELSE /\ ProducerReturn
                      /\ UNCHANGED <<statsErrCh, errSent, statsBuf>>
              /\ UNCHANGED pending
         ELSE /\ pending' = d.rec
              /\ statsBuf' = d.rest
              /\ prodPc' = "sending"
              /\ UNCHANGED <<statsErrCh, errSent, closed>>
    /\ UNCHANGED <<items, jtail, body, pullRet, imageOut, statsRet, delivered,
                   ctxDone, consuming, demuxVars, sessVars, logsVars, monVars, runVars, errVars, optVars, callVars>>

\* decoder.Decode(&containerStats) and what follows it: an error other than
\* io.EOF is sent on errCh and the task ends; io.EOF ends it; a record is
\* next sent on statsCh. A read of the body of a cancelled request may fail.
ProducerDecode ==
    /\ prodPc = "decoding"
    /\ \E d \in {Decode(statsBuf)} \cup
                (IF ctxDone THEN {[err |-> "ErrContext", rec |-> EmptyRec, rest |-> statsBuf]}
                 ELSE {}) :
         IF d.err # Nil
         THEN /\ IF d.err # "EOF"
                 THEN /\ statsErrCh' = Append(statsErrCh, d.err)
                      /\ errSent' = Append(errSent, d.err)
                 ELSE UNCHANGED <<statsErrCh, errSent>>
              /\ ProducerReturn
              /\ UNCHANGED <<statsBuf, pending>>
         ELSE /\ pending' = d.rec
              /\ statsBuf' = d.rest
              /\ prodPc' = "sending"
              /\ UNCHANGED <<statsErrCh, errSent, closed>>
    /\ UNCHANGED <<items, jtail, body, pullRet, imageOut, statsRet, delivered,
                   ctxDone, consuming, demuxVars, sessVars, logsVars, monVars, runVars, errVars, optVars, callVars>>

\* statsCh <- containerStats, met by the consumer's receive (statsCh is unbuffered)
ProducerSend ==
    /\ prodPc = "sending"
    /\ consuming
    /\ delivered' = Append(delivered, pending)
    /\ prodPc' = "select"
    /\ UNCHANGED <<items, jtail, body, pullRet, imageOut, statsRet, statsBuf, pending,
                   statsErrCh, errSent, closed, ctxDone, consuming,
                   demuxVars, sessVars, logsVars, monVars, runVars, errVars, optVars, callVars>>

\* the consumer stops receiving from statsCh
ConsumerStops ==
    /\ statsRet = "ok"
    /\ consuming
    /\ consuming' = FALSE
    /\ UNCHANGED <<items, jtail, body, pullRet, imageOut, statsRet, prodPc, statsBuf,
                   pending, delivered, statsErrCh, errSent, closed, ctxDone,
                   demuxVars, sessVars, logsVars, monVars, runVars, errVars, optVars, callVars>>

\* the context is cancelled or its deadline passes
ContextDone ==
    /\ statsRet = "ok"
    /\ ~ctxDone
    /\ ctxDone' = TRUE
    /\ UNCHANGED <<items, jtail, body, pullRet, imageOut, statsRet, prodPc, statsBuf,
                   pending, delivered, statsErrCh, errSent, closed, consuming,
                   demuxVars, sessVars, logsVars, monVars, runVars, errVars, optVars, callVars>>

-----------------------------------------------------------------------------
(* Client.GetContainerLogs: the raw log stream rc, the pipe (pr, pw) and  *)
(* the tee task io.Copy(io.MultiWriter(pw, c.logResWriter), rc).           *)

LogsInit ==
    /\ \E n \in 0..MaxLogChunks : rcData = [i \in 1..n |-> i]
    /\ rcEnd \in {"EOF", "ErrRead", "open"}
    /\ logsRet = "none"
    /\ rcPos = 0
    /\ rcClosed = FALSE
    /\ teePc = "idle"
    /\ teeErr = Nil
    /\ pipeData = <<>>
    /\ pwClosed = FALSE
    /\ prClosed = FALSE
    /\ callerGot = <<>>
    /\ callerEOF = FALSE
    /\ logOut = <<>>

LogsIdle ==
    /\ rcData = <<>>
    /\ rcEnd = "EOF"
    /\ logsRet = "none"
    /\ rcPos = 0
    /\ rcClosed = FALSE
    /\ teePc = "idle"
    /\ teeErr = Nil
    /\ pipeData = <<>>
    /\ pwClosed = FALSE
    /\ prClosed = FALSE
    /\ callerGot = <<>>
    /\ callerEOF = FALSE
    /\ logOut = <<>>

\* logs, err := client.GetContainerLogs(ctx, containerConfig): the engine
\* call, and on success the pipe and the tee task
GetContainerLogs ==
    /\ logsRet = "none"
    /\ \E containerLogsOk \in BOOLEAN :
         IF containerLogsOk
         THEN logsRet' = "ok" /\ teePc' = "read"
         ELSE logsRet' = "errEngine" /\ UNCHANGED teePc
    /\ UNCHANGED <<rcData, rcEnd, rcPos, rcClosed, teeErr, pipeData, pwClosed, prClosed,
                   callerGot, callerEOF, logOut, demuxVars, sessVars, streamVars, monVars, runVars, errVars, optVars, callVars>>

\* a plausible slip: the task's exit closes rc and leaves the pipe's write end open
TeeReturnLeavesPipeOpen(err) ==
    /\ teePc' = "done"
    /\ teeErr' = err
    /\ rcClosed' = TRUE
    /\ pipeData' = <<>>
    /\ UNCHANGED pwClosed

\* the tee task ends with io.Copy's error err: the deferred rc.Close() and pw.Close()
TeeReturn(err) ==
    /\ teePc' = "done"
    /\ teeErr' = err
    /\ rcClosed' = TRUE
    /\ pwClosed' = TRUE
    /\ pipeData' = <<>>

\* io.Copy's rc.Read: the next chunk, or the end of rc (io.EOF ends the copy
\* without error); while rc is open and silent the read stays blocked
TeeRead ==
    /\ teePc = "read"
    /\ IF rcPos < Len(rcData)
       THEN /\ rcPos' = rcPos + 1
            /\ teePc' = "pipeWrite"
            /\ UNCHANGED <<teeErr, rcClosed, pwClosed, pipeData>>
       ELSE /\ rcEnd # "open"
            /\ TeeReturn(IF rcEnd = "EOF" THEN Nil ELSE rcEnd)
            /\ UNCHANGED rcPos
    /\ UNCHANGED <<logsRet, rcData, rcEnd, prClosed, callerGot, callerEOF, logOut,
                   demuxVars, sessVars, streamVars, monVars, runVars, errVars, optVars, callVars>>

\* MultiWriter's first write, pw.Write(chunk): io.ErrClosedPipe when the
\* reader was closed, otherwise the chunk is offered to the reader
TeePipeWrite ==
    /\ teePc = "pipeWrite"
    /\ IF prClosed
       THEN TeeReturn("ErrClosedPipe")
       ELSE /\ pipeData' = <<rcData[rcPos]>>
            /\ teePc' = "pipeWait"
            /\ UNCHANGED <<teeErr, rcClosed, pwClosed>>
    /\ UNCHANGED <<logsRet, rcData, rcEnd, rcPos, prClosed, callerGot, callerEOF, logOut,
                   demuxVars, sessVars, streamVars, monVars, runVars, errVars, optVars, callVars>>

\* a variant in which the chunk the reader took is not passed on to the log writer
TeePipeWriteReturnsSkipsLogWriter ==
    /\ teePc = "pipeWait"
    /\ IF pipeData = <<>>
       THEN /\ teePc' = "read"
            /\ UNCHANGED <<teeErr, rcClosed, pwClosed, pipeData>>
       ELSE /\ prClosed
            /\ TeeReturn("ErrClosedPipe")
    /\ UNCHANGED <<logsRet, rcData, rcEnd, rcPos, prClosed, callerGot, callerEOF, logOut,
                   demuxVars, sessVars, streamVars, monVars, runVars, errVars, optVars, callVars>>

\* pw.Write returns: nil once the reader has taken the whole chunk (also when
\* the reader is closed right after), io.ErrClosedPipe when the reader was
\* closed with the chunk not taken
TeePipeWriteReturns ==
    /\ teePc = "pipeWait"
    /\ IF pipeData = <<>>
       THEN /\ teePc' = "logWrite"
            /\ UNCHANGED <<teeErr, rcClosed, pwClosed, pipeData>>
       ELSE /\ prClosed
            /\ TeeReturn("ErrClosedPipe")
    /\ UNCHANGED <<logsRet, rcData, rcEnd, rcPos, prClosed, callerGot, callerEOF, logOut,
                   demuxVars, sessVars, streamVars, monVars, runVars, errVars, optVars, callVars>>

\* MultiWriter's second write, c.logResWriter.Write(chunk), which may fail
TeeLogWrite ==
    /\ teePc = "logWrite"
    /\ \E logWriteOk \in BOOLEAN :
         IF logWriteOk
         THEN /\ logOut' = Append(logOut, rcData[rcPos])
              /\ teePc' = "read"
              /\ UNCHANGED <<teeErr, rcClosed, pwClosed, pipeData>>
         ELSE /\ TeeReturn("ErrLogWriter")
              /\ UNCHANGED logOut
    /\ UNCHANGED <<logsRet, rcData, rcEnd, rcPos, prClosed, callerGot, callerEOF,
                   demuxVars, sessVars, streamVars, monVars, runVars, errVars, optVars, callVars>>

\* the caller's Read on the returned reader: the chunk a writer offers, or
\* io.EOF once the write end is closed
CallerRead ==
    /\ logsRet = "ok"
    /\ ~prClosed
    /\ ~callerEOF
    /\ IF pipeData # <<>>
       THEN /\ callerGot' = callerGot \o pipeData
            /\ pipeData' = <<>>
            /\ UNCHANGED callerEOF
       ELSE /\ pwClosed
            /\ callerEOF' = TRUE
            /\ UNCHANGED <<callerGot, pipeData>>
    /\ UNCHANGED <<logsRet, rcData, rcEnd, rcPos, rcClosed, teePc, teeErr, pwClosed,
                   prClosed, logOut, demuxVars, sessVars, streamVars, monVars, runVars, errVars, optVars, callVars>>

\* the caller's logs.Close()
CallerCloseLogs ==
    /\ logsRet = "ok"
    /\ ~prClosed
    /\ prClosed' = TRUE
    /\ UNCHANGED <<logsRet, rcData, rcEnd, rcPos, rcClosed, teePc, teeErr, pipeData,
                   pwClosed, callerGot, callerEOF, logOut, demuxVars, sessVars, streamVars, monVars, runVars, errVars, optVars, callVars>>

-----------------------------------------------------------------------------
(* Session.MonitorSize: one polling task per call, all on s.resizeCh (an   *)
(* unbuffered channel made by NewSession).                                  *)

\* the MonitorSize calls made on the session
Monitors == 1..MaxMonitors

\* what term.GetSize answers: a size, or an error
QueryResults ==
    [ok : {TRUE}, width : {80, 100}, height : {24}]
        \cup {[ok |-> FALSE, width |-> 0, height |-> 0]}

MonitorIdle ==
    /\ monPc = [m \in Monitors |-> "idle"]
    /\ monPending = [m \in Monitors |-> <<>>]
    /\ queries = <<>>
    /\ resizeClosed = FALSE
    /\ resizeGot = <<>>
    /\ monPanic = Nil

\* a session made by NewSession, before Start: raw mode engaged, mode saved
SessionCreated ==
    /\ origMode = "cooked"
    /\ termMode = "raw"
    /\ attachRet = "ok"
    /\ hijack = "open"
    /\ oldState = "cooked"
    /\ startPc = "idle"
    /\ startRet = Nil
    /\ taskPc = [t \in Tasks |-> "idle"]
    /\ taskErr = [t \in Tasks |-> Nil]
    /\ copied = [t \in Tasks |-> 0]
    /\ errCh = <<>>
    /\ closeCalls = 0
    /\ restoreCalls = 0
    /\ restored = "none"
    /\ starts = 0

\* s.MonitorSize(): starts a polling task and returns s.resizeCh
MonitorSize(m) ==
    /\ monPanic = Nil
    /\ monPc[m] = "idle"
    /\ \A k \in 1..(m - 1) : monPc[k] # "idle"
    /\ monPc' = [monPc EXCEPT ![m] = "query"]
    /\ UNCHANGED <<monPending, queries, resizeClosed, resizeGot, monPanic,
                   demuxVars, sessVars, streamVars, logsVars, runVars, errVars, optVars, callVars>>

\* the array sent for a size: [2]uint{uint(height), uint(width)}
ResizeValue(width, height) == <<height, width>>

\* a plausible slip: the pair is sent as GetSize returns it, width first
ResizeValueWidthFirst(width, height) == <<width, height>>

\* a plausible slip: a failed size query is tried again
MonitorQueryRetries(m) ==
    /\ monPanic = Nil
    /\ monPc[m] = "query"
    /\ Len(queries) < MaxQueries
    /\ \E r \in QueryResults :
         /\ queries' = Append(queries, [by |-> m, ok |-> r.ok,
                                        width |-> r.width, height |-> r.height])
         /\ IF r.ok
            THEN /\ monPending' = [monPending EXCEPT ![m] = ResizeValue(r.width, r.height)]
                 /\ monPc' = [monPc EXCEPT ![m] = "send"]
            ELSE UNCHANGED <<monPending, monPc>>
    /\ UNCHANGED <<resizeClosed, resizeGot, monPanic,
                   demuxVars, sessVars, streamVars, logsVars, runVars, errVars, optVars, callVars>>

\* one turn of the task's loop up to its send: width, height, err := s.GetSize();
\* on an error the task returns and its deferred close(s.resizeCh) runs, which
\* panics when the channel is closed already
MonitorQuery(m) ==
    /\ monPanic = Nil
    /\ monPc[m] = "query"
    /\ Len(queries) < MaxQueries
    /\ \E r \in QueryResults :
         /\ queries' = Append(queries, [by |-> m, ok |-> r.ok,
                                        width |-> r.width, height |-> r.height])
         /\ IF r.ok
            THEN /\ monPending' = [monPending EXCEPT ![m] = ResizeValue(r.width, r.height)]
                 /\ monPc' = [monPc EXCEPT ![m] = "send"]
                 /\ UNCHANGED <<resizeClosed, monPanic>>
            ELSE IF resizeClosed
            THEN /\ monPanic' = "close of closed channel"
                 /\ monPc' = [monPc EXCEPT ![m] = "panicked"]
                 /\ UNCHANGED <<monPending, resizeClosed>>
            ELSE /\ resizeClosed' = TRUE
                 /\ monPc' = [monPc EXCEPT ![m] = "done"]
                 /\ UNCHANGED <<monPending, monPanic>>
    /\ UNCHANGED <<resizeGot, demuxVars, sessVars, streamVars, logsVars, runVars, errVars, optVars, callVars>>

\* s.resizeCh <- value: handed to a receiver of the unbuffered channel; a
\* send on the closed channel panics
MonitorSend(m) ==
    /\ monPanic = Nil
    /\ monPc[m] = "send"
    /\ IF resizeClosed
       THEN /\ monPanic' = "send on closed channel"
            /\ monPc' = [monPc EXCEPT ![m] = "panicked"]
            /\ UNCHANGED resizeGot
       ELSE /\ resizeGot' = Append(resizeGot, monPending[m])
            /\ monPc' = [monPc EXCEPT ![m] = "query"]
            /\ UNCHANGED monPanic
    /\ UNCHANGED <<monPending, queries, resizeClosed,
                   demuxVars, sessVars, streamVars, logsVars, runVars, errVars, optVars, callVars>>

-----------------------------------------------------------------------------
(* errdefs: errors as [type, op, wraps]; wraps holds the error a             *)
(* fmt.Errorf("...: %w", err) value unwraps to.                            *)

NoError == [type |-> "nil", op |-> "", wraps |-> <<>>]

Sentinel(name) == [type |-> "sentinel", op |-> name, wraps |-> <<>>]

ErrNotFound == Sentinel("ErrNotFound")
ErrAlreadyExists == Sentinel("ErrAlreadyExists")
ErrInvalidConfig == Sentinel("ErrInvalidConfig")
ErrDaemonNotRunning == Sentinel("ErrDaemonNotRunning")
ErrTimeout == Sentinel("ErrTimeout")
ErrCanceled == Sentinel("ErrCanceled")

\* context.DeadlineExceeded and context.Canceled
DeadlineExceeded == [type |-> "context", op |-> "DeadlineExceeded", wraps |-> <<>>]
Canceled == [type |-> "context", op |-> "Canceled", wraps |-> <<>>]

\* an error of the engine or of the connection to it
EngineError == [type |-> "engine", op |-> "", wraps |-> <<>>]

ValidationError == [type |-> "ValidationError", op |-> "", wraps |-> <<>>]
ResourceNotFoundError == [type |-> "ResourceNotFoundError", op |-> "", wraps |-> <<>>]
ResourceExistsError == [type |-> "ResourceExistsError", op |-> "", wraps |-> <<>>]
ConfigError == [type |-> "ConfigError", op |-> "", wraps |-> <<>>]
DaemonNotRunningError == [type |-> "DaemonNotRunningError", op |-> "", wraps |-> <<>>]

\* &errdefs.ContainerError{Op: operation, Message: err.Error()}: the message is text, the cause is not kept
ContainerError(operation) == [type |-> "ContainerError", op |-> operation, wraps |-> <<>>]

\* fmt.Errorf(msg + ": %w", err): a nil operand of %w is a bad verb and the
\* result is a plain error that unwraps to nothing
Errorf(msg, err) ==
    IF err = NoError
    THEN [type |-> "errorString", op |-> msg, wraps |-> <<>>]
    ELSE [type |-> "wrapError", op |-> msg, wraps |-> <<err>>]

\* errdefs.Wrap(err, message)
Wrap(err, message) == Errorf(message, err)

\* a variant in which a ValidationError answers to ErrNotFound
IsMethodValidationIsNotFound(err, target) ==
    \/ err.type = "ResourceNotFoundError" /\ target = ErrNotFound
    \/ err.type = "ResourceExistsError" /\ target = ErrAlreadyExists
    \/ err.type = "ConfigError" /\ target = ErrInvalidConfig
    \/ err.type = "ValidationError" /\ target = ErrNotFound
    \/ err.type = "DaemonNotRunningError" /\ target = ErrDaemonNotRunning

\* the Is methods of the typed errors
IsMethod(err, target) ==
    \/ err.type = "ResourceNotFoundError" /\ target = ErrNotFound
    \/ err.type = "ResourceExistsError" /\ target = ErrAlreadyExists
    \/ err.type = "ConfigError" /\ target = ErrInvalidConfig
    \/ err.type = "ValidationError" /\ target = ErrInvalidConfig
    \/ err.type = "DaemonNotRunningError" /\ target = ErrDaemonNotRunning

RECURSIVE ErrorsIs(_, _)
\* errors.Is(err, target)
ErrorsIs(err, target) ==
    IF err = NoError \/ target = NoError THEN err = target
    ELSE IF err = target \/ IsMethod(err, target) THEN TRUE
    ELSE IF err.wraps # <<>> THEN ErrorsIs(err.wraps[1], target)
    ELSE FALSE

\* the sentinel errors of the package
Sentinels ==
    {ErrNotFound, ErrAlreadyExists, ErrInvalidConfig, ErrDaemonNotRunning,
     ErrTimeout, ErrCanceled}

\* the typed errors of the package that carry an Is method, and one that does not
TypedErrors ==
    {ResourceNotFoundError, ResourceExistsError, ConfigError, ValidationError,
     DaemonNotRunningError, ContainerError("create")}

RECURSIVE WrapDepth(_)
\* how many times an error has been wrapped
WrapDepth(err) == IF err.wraps = <<>> THEN 0 ELSE 1 + WrapDepth(err.wraps[1])

ErrInit ==
    /\ errVal \in Sentinels \cup TypedErrors \cup {EngineError, NoError}
    /\ errInner = NoError
    /\ isTarget = NoError
    /\ isGot = "none"

ErrIdle ==
    /\ errVal = NoError
    /\ errInner = NoError
    /\ isTarget = NoError
    /\ isGot = "none"

\* errVal = errdefs.Wrap(errVal, "context")
WrapCall ==
    /\ WrapDepth(errVal) < MaxWrap
    /\ errInner' = errVal
    /\ errVal' = Wrap(errVal, "context")
    /\ isTarget' = NoError
    /\ isGot' = "none"
    /\ UNCHANGED <<demuxVars, sessVars, streamVars, logsVars, monVars, runVars, optVars, callVars>>

\* errors.Is(errVal, target), as IsNotFound ... IsCanceled and the tests call it
IsCall ==
    /\ \E target \in Sentinels \cup {errInner} :
          /\ isTarget' = target
          /\ isGot' = IF ErrorsIs(errVal, target) THEN "true" ELSE "false"
    /\ UNCHANGED <<errVal, errInner>>
    /\ UNCHANGED <<demuxVars, sessVars, streamVars, logsVars, monVars, runVars, optVars, callVars>>

-----------------------------------------------------------------------------
(* Client.ContainerCreate, ContainerStart, RunAndWait and RunAsync.        *)

\* how the engine answers a create: success, image not found, a name
\* conflict ("Conflict ... is already in use"), a conflict of another kind,
\* an "is already in use" that is no conflict, another failure
CreateOutcomes == {"ok", "notFound", "conflictInUse", "conflict", "inUse", "other"}

\* how the engine answers a start
StartOutcomes == {"ok", "notFound", "portAllocated", "other"}

\* exit status codes of a container
StatusCodes == {0, 1}

\* a variant that stores the ID before looking at the error and takes every
\* conflict for a name in use
ContainerCreateLoose(cfgNil, id, outcome, resID) ==
    IF cfgNil
    THEN [err |-> ValidationError, id |-> id, calls |-> <<>>]
    ELSE IF outcome = "ok"
    THEN [err |-> NoError, id |-> resID, calls |-> <<"create">>]
    ELSE IF outcome = "notFound"
    THEN [err |-> [ResourceNotFoundError EXCEPT !.op = "image"], id |-> "", calls |-> <<"create">>]
    ELSE IF outcome \in {"conflictInUse", "conflict"}
    THEN [err |-> [ResourceExistsError EXCEPT !.op = "container"], id |-> "", calls |-> <<"create">>]
    ELSE [err |-> ContainerError("create"), id |-> "", calls |-> <<"create">>]

\* Client.ContainerCreate: the error, the config's Id afterwards, the engine
\* calls made; resID is the ID in the engine's response
ContainerCreate(cfgNil, id, outcome, resID) ==
    IF cfgNil
    THEN [err |-> ValidationError, id |-> id, calls |-> <<>>]
    ELSE IF outcome = "ok"
    THEN [err |-> NoError, id |-> resID, calls |-> <<"create">>]
    ELSE IF outcome = "notFound"
    THEN [err |-> [ResourceNotFoundError EXCEPT !.op = "image"], id |-> id, calls |-> <<"create">>]
    ELSE IF outcome = "conflictInUse"
    THEN [err |-> [ResourceExistsError EXCEPT !.op = "container"], id |-> id, calls |-> <<"create">>]
    ELSE [err |-> ContainerError("create"), id |-> id, calls |-> <<"create">>]

\* a variant without the check of the config and its Id
ContainerStartUnchecked(cfgNil, id, outcome) ==
    IF outcome = "ok"
    THEN [err |-> NoError, calls |-> <<"start">>]
    ELSE IF outcome = "notFound"
    THEN [err |-> [ResourceNotFoundError EXCEPT !.op = "container"], calls |-> <<"start">>]
    ELSE IF outcome = "portAllocated"
    THEN [err |-> [ResourceExistsError EXCEPT !.op = "port"], calls |-> <<"start">>]
    ELSE [err |-> ContainerError("start"), calls |-> <<"start">>]

\* Client.ContainerStart
ContainerStart(cfgNil, id, outcome) ==
    IF cfgNil \/ id = ""
    THEN [err |-> ValidationError, calls |-> <<>>]
    ELSE IF outcome = "ok"
    THEN [err |-> NoError, calls |-> <<"start">>]
    ELSE IF outcome = "notFound"
    THEN [err |-> [ResourceNotFoundError EXCEPT !.op = "container"], calls |-> <<"start">>]
    ELSE IF outcome = "portAllocated"
    THEN [err |-> [ResourceExistsError EXCEPT !.op = "port"], calls |-> <<"start">>]
    ELSE [err |-> ContainerError("start"), calls |-> <<"start">>]

CallIdle ==
    /\ callCfgId = ""
    /\ callLog = <<>>

\* err := client.ContainerCreate(ctx, containerConfig), containerConfig nil
\* or the one config
CallContainerCreate ==
    /\ Len(callLog) < MaxCalls
    /\ \E cfgNil \in BOOLEAN, co \in CreateOutcomes, resID \in {"c1", "c2"} :
         LET c == ContainerCreate(cfgNil, callCfgId, co, resID)
         IN  /\ c.calls = <<>> => (co = "ok" /\ resID = "c1")
             /\ co # "ok" => resID = "c1"
             /\ callCfgId' = c.id
             /\ callLog' = Append(callLog,
                    [op |-> "ContainerCreate", cfgNil |-> cfgNil, create |-> co,
                     start |-> "ok", resID |-> resID, idBefore |-> callCfgId,
                     idAfter |-> c.id, err |-> c.err, engine |-> c.calls])
    /\ UNCHANGED <<demuxVars, sessVars, streamVars, logsVars, monVars, runVars, errVars, optVars>>

\* err := client.ContainerStart(ctx, containerConfig)
CallContainerStart ==
    /\ Len(callLog) < MaxCalls
    /\ \E cfgNil \in BOOLEAN, so \in StartOutcomes :
         LET st == ContainerStart(cfgNil, callCfgId, so)
         IN  /\ st.calls = <<>> => so = "ok"
             /\ callLog' = Append(callLog,
                    [op |-> "ContainerStart", cfgNil |-> cfgNil, create |-> "ok",
                     start |-> so, resID |-> "c1", idBefore |-> callCfgId,
                     idAfter |-> callCfgId, err |-> st.err, engine |-> st.calls])
    /\ UNCHANGED callCfgId
    /\ UNCHANGED <<demuxVars, sessVars, streamVars, logsVars, monVars, runVars, errVars, optVars>>

\* client.RunAndWait(ctx, containerConfig) or client.RunAsync(ctx,
\* containerConfig) up to their wait: create, then start
CallRun ==
    /\ Len(callLog) < MaxCalls
    /\ \E cfgNil \in BOOLEAN, co \in CreateOutcomes, resID \in {"c1", "c2"}, so \in StartOutcomes :
         LET c == ContainerCreate(cfgNil, callCfgId, co, resID)
             st == ContainerStart(cfgNil, c.id, so)
             started == c.err = NoError
         IN  /\ c.calls = <<>> => (co = "ok" /\ resID = "c1")
             /\ co # "ok" => (resID = "c1" /\ so = "ok")
             /\ callCfgId' = c.id
             /\ callLog' = Append(callLog,
                    [op |-> "Run", cfgNil |-> cfgNil, create |-> co,
                     start |-> so, resID |-> resID, idBefore |-> callCfgId,
                     idAfter |-> c.id,
                     err |-> IF started THEN st.err ELSE c.err,
                     engine |-> IF started THEN c.calls \o st.calls ELSE c.calls])
    /\ UNCHANGED <<demuxVars, sessVars, streamVars, logsVars, monVars, runVars, errVars, optVars>>

NoCase == [case |-> "none", code |-> 0]

RunIdle ==
    /\ runOp = "none"
    /\ runIn = [cfgNil |-> FALSE, create |-> "ok", start |-> "ok"]
    /\ runPc = "idle"
    /\ runRet = NoError
    /\ cfgId = ""
    /\ engineCalls = <<>>
    /\ container = "none"
    /\ ctxErr = NoError
    /\ statusCh = <<>>
    /\ waitErrCh = <<>>
    /\ runCase = NoCase
    /\ resultCh = <<>>
    /\ resultClosed = FALSE
    /\ asyncGot = <<>>

\* the cases of the select on errCh, statusCh and ctx.Done() that are ready
ReadyCases ==
    {c \in {"err", "status", "ctx"} :
        \/ c = "err" /\ waitErrCh # <<>>
        \/ c = "status" /\ statusCh # <<>>
        \/ c = "ctx" /\ ctxErr # NoError}

\* what the select of RunAndWait returns for the case it takes
RunAndWaitResult(case, code, ctxe) ==
    IF case = "err" THEN ContainerError("wait")
    ELSE IF case = "status"
    THEN (IF code # 0 THEN ContainerError("run") ELSE NoError)
    ELSE IF ctxe = DeadlineExceeded THEN ErrTimeout
    ELSE IF ctxe = Canceled THEN ErrCanceled
    ELSE ctxe

\* what RunAsync's task sends on resultCh for the case its select takes
RunAsyncResult(case, err, ctxe) ==
    IF case = "err" THEN Errorf("container wait failed", err)
    ELSE IF case = "status" THEN NoError
    ELSE ctxe

\* err := client.RunAndWait(ctx, containerConfig), up to its select: create,
\* then start, then ContainerWait
RunAndWait ==
    /\ runOp = "none"
    /\ runOp' = "RunAndWait"
    /\ \E cfgNil \in BOOLEAN, co \in CreateOutcomes, so \in StartOutcomes :
         LET c == ContainerCreate(cfgNil, cfgId, co, "c1")
             st == ContainerStart(cfgNil, c.id, so)
         IN  /\ runIn' = [cfgNil |-> cfgNil, create |-> co, start |-> so]
             /\ cfgId' = c.id
             /\ IF c.err # NoError
                THEN /\ runRet' = c.err
                     /\ runPc' = "returned"
                     /\ engineCalls' = engineCalls \o c.calls
                     /\ UNCHANGED container
                ELSE IF st.err # NoError
                THEN /\ runRet' = st.err
                     /\ runPc' = "returned"
                     /\ engineCalls' = engineCalls \o c.calls \o st.calls
                     /\ container' = "created"
                ELSE /\ runRet' = NoError
                     /\ runPc' = "select"
                     /\ engineCalls' = engineCalls \o c.calls \o st.calls \o <<"wait">>
                     /\ container' = "running"
    /\ UNCHANGED <<ctxErr, statusCh, waitErrCh, runCase, resultCh, resultClosed, asyncGot,
                   demuxVars, sessVars, streamVars, logsVars, monVars, errVars, optVars, callVars>>

\* a plausible slip: the status received is not looked at
RunAndWaitSelectIgnoresStatus ==
    /\ runOp = "RunAndWait"
    /\ runPc = "select"
    /\ \E case \in ReadyCases :
         LET code == IF case = "status" THEN Head(statusCh) ELSE 0
         IN  /\ runCase' = [case |-> case, code |-> code]
             /\ runRet' = IF case = "status" THEN NoError
                          ELSE RunAndWaitResult(case, code, ctxErr)
             /\ statusCh' = IF case = "status" THEN Tail(statusCh) ELSE statusCh
             /\ waitErrCh' = IF case = "err" THEN Tail(waitErrCh) ELSE waitErrCh
    /\ runPc' = "returned"
    /\ UNCHANGED <<runOp, runIn, cfgId, engineCalls, container, ctxErr, resultCh,
                   resultClosed, asyncGot,
                   demuxVars, sessVars, streamVars, logsVars, monVars, errVars, optVars, callVars>>

\* RunAndWait's select: one of the ready cases is taken, whichever
RunAndWaitSelect ==
    /\ runOp = "RunAndWait"
    /\ runPc = "select"
    /\ \E case \in ReadyCases :
         LET code == IF case = "status" THEN Head(statusCh) ELSE 0
         IN  /\ runCase' = [case |-> case, code |-> code]
             /\ runRet' = RunAndWaitResult(case, code, ctxErr)
             /\ statusCh' = IF case = "status" THEN Tail(statusCh) ELSE statusCh
             /\ waitErrCh' = IF case = "err" THEN Tail(waitErrCh) ELSE waitErrCh
    /\ runPc' = "returned"
    /\ UNCHANGED <<runOp, runIn, cfgId, engineCalls, container, ctxErr, resultCh,
                   resultClosed, asyncGot,
                   demuxVars, sessVars, streamVars, logsVars, monVars, errVars, optVars, callVars>>

\* resultCh, err := client.RunAsync(ctx, containerConfig): create, then start,
\* then ContainerWait and the task that selects
RunAsync ==
    /\ runOp = "none"
    /\ runOp' = "RunAsync"
    /\ \E cfgNil \in BOOLEAN, co \in CreateOutcomes, so \in StartOutcomes :
         LET c == ContainerCreate(cfgNil, cfgId, co, "c1")
             st == ContainerStart(cfgNil, c.id, so)
         IN  /\ runIn' = [cfgNil |-> cfgNil, create |-> co, start |-> so]
             /\ cfgId' = c.id
             /\ IF c.err # NoError
                THEN /\ runRet' = Errorf("create container failed", c.err)
                     /\ runPc' = "returned"
                     /\ engineCalls' = engineCalls \o c.calls
                     /\ UNCHANGED container
                ELSE IF st.err # NoError
                THEN /\ runRet' = Errorf("start container failed", st.err)
                     /\ runPc' = "returned"
                     /\ engineCalls' = engineCalls \o c.calls \o st.calls
                     /\ container' = "created"
                ELSE /\ runRet' = NoError
                     /\ runPc' = "select"
                     /\ engineCalls' = engineCalls \o c.calls \o st.calls \o <<"wait">>
                     /\ container' = "running"
    /\ UNCHANGED <<ctxErr, statusCh, waitErrCh, runCase, resultCh, resultClosed, asyncGot,
                   demuxVars, sessVars, streamVars, logsVars, monVars, errVars, optVars, callVars>>

\* the task of RunAsync: its select, the send on resultCh (capacity 1, empty)
\* and the deferred close(resultCh)
RunAsyncSelect ==
    /\ runOp = "RunAsync"
    /\ runPc = "select"
    /\ \E case \in ReadyCases :
         LET code == IF case = "status" THEN Head(statusCh) ELSE 0
             err == IF case = "err" THEN Head(waitErrCh) ELSE NoError
         IN  /\ runCase' = [case |-> case, code |-> code]
             /\ resultCh' = Append(resultCh, RunAsyncResult(case, err, ctxErr))
             /\ statusCh' = IF case = "status" THEN Tail(statusCh) ELSE statusCh
             /\ waitErrCh' = IF case = "err" THEN Tail(waitErrCh) ELSE waitErrCh
    /\ resultClosed' = TRUE
    /\ runPc' = "done"
    /\ UNCHANGED <<runOp, runIn, runRet, cfgId, engineCalls, container, ctxErr, asyncGot,
                   demuxVars, sessVars, streamVars, logsVars, monVars, errVars, optVars, callVars>>

\* the caller of RunAsync receives from resultCh
AsyncReceive ==
    /\ runOp = "RunAsync"
    /\ resultCh # <<>>
    /\ asyncGot' = Append(asyncGot, Head(resultCh))
    /\ resultCh' = Tail(resultCh)
    /\ UNCHANGED <<runOp, runIn, runPc, runRet, cfgId, engineCalls, container, ctxErr,
                   statusCh, waitErrCh, runCase, resultClosed,
                   demuxVars, sessVars, streamVars, logsVars, monVars, errVars, optVars, callVars>>

\* the container stops and the engine's answer to the wait arrives: its
\* status becomes ready on the status channel
ContainerExits ==
    /\ runPc = "select"
    /\ container = "running"
    /\ ctxErr = NoError
    /\ statusCh = <<>> /\ waitErrCh = <<>>
    /\ container' = "exited"
    /\ \E code \in StatusCodes : statusCh' = <<code>>
    /\ UNCHANGED <<runOp, runIn, runPc, runRet, cfgId, engineCalls, ctxErr, waitErrCh,
                   runCase, resultCh, resultClosed, asyncGot,
                   demuxVars, sessVars, streamVars, logsVars, monVars, errVars, optVars, callVars>>

\* the wait request fails: the engine client puts the error on the error
\* channel; once the context is done that error is the context's
WaitFails ==
    /\ runPc = "select"
    /\ statusCh = <<>> /\ waitErrCh = <<>>
    /\ waitErrCh' = <<IF ctxErr # NoError THEN ctxErr ELSE EngineError>>
    /\ UNCHANGED <<runOp, runIn, runPc, runRet, cfgId, engineCalls, container, ctxErr,
                   statusCh, runCase, resultCh, resultClosed, asyncGot,
                   demuxVars, sessVars, streamVars, logsVars, monVars, errVars, optVars, callVars>>

\* the context's deadline expires, or the context is cancelled
RunContextDone ==
    /\ runPc = "select"
    /\ ctxErr = NoError
    /\ ctxErr' \in {DeadlineExceeded, Canceled}
    /\ UNCHANGED <<runOp, runIn, runPc, runRet, cfgId, engineCalls, container, statusCh,
                   waitErrCh, runCase, resultCh, resultClosed, asyncGot,
                   demuxVars, sessVars, streamVars, logsVars, monVars, errVars, optVars, callVars>>

-----------------------------------------------------------------------------
(* container.ContainerConfig and its functional options.  A setter is the  *)
(* closure a constructor such as containeroptions.Env returns, kept as the  *)
(* values it captured: [fn, key, val, n, list].                             *)

NilSetter == [fn |-> "nil", key |-> "", val |-> "", n |-> 0, list |-> <<>>]

\* containeroptions.WorkingDir(dir)
WorkingDir(dir) == [fn |-> "WorkingDir", key |-> "", val |-> dir, n |-> 0, list |-> <<>>]

\* containeroptions.Env(key, value)
Env(key, value) == [fn |-> "Env", key |-> key, val |-> value, n |-> 0, list |-> <<>>]

\* containeroptions.Label(label, value)
Label(label, value) == [fn |-> "Label", key |-> label, val |-> value, n |-> 0, list |-> <<>>]

\* hostoptions.Memory(memory)
Memory(memory) == [fn |-> "Memory", key |-> "", val |-> "", n |-> memory, list |-> <<>>]

\* hostoptions.RestartPolicy(mode, maxRetryCount): the policy mode is chosen
\* when the setter is built; key keeps the mode that was asked for
RestartPolicy(mode, maxRetryCount) ==
    LET policyMode ==
            IF mode = "no" THEN "no"
            ELSE IF mode = "on-failure" THEN "on-failure"
            ELSE IF mode = "always" THEN "always"
            ELSE "no"
    IN  [fn |-> "RestartPolicy", key |-> mode, val |-> policyMode,
         n |-> maxRetryCount, list |-> <<>>]

\* hostoptions.DeviceCgroupRules(rules)
DeviceCgroupRules(rules) ==
    [fn |-> "DeviceCgroupRules", key |-> "", val |-> "", n |-> 0, list |-> rules]

\* networkoptions.Endpoint(name, endpoint)
Endpoint(name, endpoint) ==
    [fn |-> "Endpoint", key |-> name, val |-> endpoint, n |-> 0, list |-> <<>>]

\* platformoptions.Arch(arch)
Arch(arch) == [fn |-> "Arch", key |-> "", val |-> arch, n |-> 0, list |-> <<>>]

\* platformoptions.OS(os)
OS(os) == [fn |-> "OS", key |-> "", val |-> os, n |-> 0, list |-> <<>>]

\* m[key] = value on a map kept as a set of <<key, value>> pairs
MapSet(m, key, value) == {p \in m : p[1] # key} \cup {<<key, value>>}

\* a variant in which Env replaces the list
ApplySetterEnvOverwrites(c, s) ==
    IF s.fn = "WorkingDir" THEN [c EXCEPT !.WorkingDir = s.val]
    ELSE IF s.fn = "Env" THEN [c EXCEPT !.Env = <<<<s.key, s.val>>>>]
    ELSE IF s.fn = "Label" THEN [c EXCEPT !.Labels = MapSet(c.Labels, s.key, s.val)]
    ELSE IF s.fn = "Memory" THEN [c EXCEPT !.Memory = s.n]
    ELSE IF s.fn = "RestartPolicy"
    THEN [c EXCEPT !.RestartPolicy = [Name |-> s.val, MaximumRetryCount |-> s.n]]
    ELSE IF s.fn = "DeviceCgroupRules" THEN [c EXCEPT !.DeviceCgroupRules = s.list]
    ELSE IF s.fn = "Endpoint"
    THEN [c EXCEPT !.EndpointsConfig = MapSet(c.EndpointsConfig, s.key, s.val)]
    ELSE IF s.fn = "Arch" THEN [c EXCEPT !.Architecture = s.val]
    ELSE IF s.fn = "OS" THEN [c EXCEPT !.OS = s.val]
    ELSE c

\* set(c.Options), set(c.HostOptions), ...: what the closure of each
\* constructor does to the struct it is given; an Env entry "key=value" is
\* kept as the pair <<key, value>>
ApplySetter(c, s) ==
    IF s.fn = "WorkingDir" THEN [c EXCEPT !.WorkingDir = s.val]
    ELSE IF s.fn = "Env" THEN [c EXCEPT !.Env = Append(c.Env, <<s.key, s.val>>)]
    ELSE IF s.fn = "Label" THEN [c EXCEPT !.Labels = MapSet(c.Labels, s.key, s.val)]
    ELSE IF s.fn = "Memory" THEN [c EXCEPT !.Memory = s.n]
    ELSE IF s.fn = "RestartPolicy"
    THEN [c EXCEPT !.RestartPolicy = [Name |-> s.val, MaximumRetryCount |-> s.n]]
    ELSE IF s.fn = "DeviceCgroupRules" THEN [c EXCEPT !.DeviceCgroupRules = s.list]
    ELSE IF s.fn = "Endpoint"
    THEN [c EXCEPT !.EndpointsConfig = MapSet(c.EndpointsConfig, s.key, s.val)]
    ELSE IF s.fn = "Arch" THEN [c EXCEPT !.Architecture = s.val]
    ELSE IF s.fn = "OS" THEN [c EXCEPT !.OS = s.val]
    ELSE c

RECURSIVE SetOptions(_, _)
\* for _, set := range fns { if set != nil { set(...) } }
SetOptions(c, fns) ==
    IF fns = <<>> THEN c
    ELSE SetOptions(IF Head(fns) # NilSetter THEN ApplySetter(c, Head(fns)) ELSE c,
                    Tail(fns))

\* container.NewConfig(name): every option struct is its zero value
NewConfig ==
    [WorkingDir |-> "", Env |-> <<>>, Labels |-> {}, Memory |-> 0,
     RestartPolicy |-> [Name |-> "", MaximumRetryCount |-> 0],
     DeviceCgroupRules |-> <<>>, EndpointsConfig |-> {},
     Architecture |-> "", OS |-> ""]

\* the setters a caller passes to each method
ContainerSetters ==
    {WorkingDir("/app1"), WorkingDir("/app2"),
     Env("ENV1", "value1"), Env("ENV2", "value2"),
     Label("label1", "value1"), Label("label1", "value2"), Label("label2", "value1"),
     NilSetter}

HostSetters ==
    {Memory(100), Memory(200),
     DeviceCgroupRules(<<"c 1:3 rwm">>), DeviceCgroupRules(<<"a 7:* rmw">>),
     NilSetter}
    \cup {RestartPolicy(mode, IF mode \in {"on-failure", "unless-stopped"} THEN 5 ELSE 0) :
             mode \in {"no", "on-failure", "always", "unless-stopped", "invalid"}}

NetworkSetters ==
    {Endpoint("network1", "endpoint1"), Endpoint("network1", "endpoint2"), NilSetter}

PlatformSetters == {Arch("amd64"), Arch("arm64"), OS("linux"), NilSetter}

\* the argument lists of one call: one or two setters
SetterLists(S) == {<<a>> : a \in S} \cup {<<a, b>> : a \in S, b \in S}

OptIdle ==
    /\ cc = NewConfig
    /\ passed = <<>>

\* c.SetContainerOptions(fns...)
SetContainerOptions ==
    /\ \E fns \in SetterLists(ContainerSetters) :
          /\ Len(passed) + Len(fns) <= MaxSetters
          /\ cc' = SetOptions(cc, fns)
          /\ passed' = passed \o fns
    /\ UNCHANGED <<demuxVars, sessVars, streamVars, logsVars, monVars, runVars, errVars, callVars>>

\* c.SetHostOptions(fns...)
SetHostOptions ==
    /\ \E fns \in SetterLists(HostSetters) :
          /\ Len(passed) + Len(fns) <= MaxSetters
          /\ cc' = SetOptions(cc, fns)
          /\ passed' = passed \o fns
    /\ UNCHANGED <<demuxVars, sessVars, streamVars, logsVars, monVars, runVars, errVars, callVars>>

\* c.SetNetworkOptions(fns...)
SetNetworkOptions ==
    /\ \E fns \in SetterLists(NetworkSetters) :
          /\ Len(passed) + Len(fns) <= MaxSetters
          /\ cc' = SetOptions(cc, fns)
          /\ passed' = passed \o fns
    /\ UNCHANGED <<demuxVars, sessVars, streamVars, logsVars, monVars, runVars, errVars, callVars>>

\* c.SetPlatformOptions(fns...)
SetPlatformOptions ==
    /\ \E fns \in SetterLists(PlatformSetters) :
          /\ Len(passed) + Len(fns) <= MaxSetters
          /\ cc' = SetOptions(cc, fns)
          /\ passed' = passed \o fns
    /\ UNCHANGED <<demuxVars, sessVars, streamVars, logsVars, monVars, runVars, errVars, callVars>>

-----------------------------------------------------------------------------
(* Specifications.                                                         *)



DemuxNext == Copy \/ CopyWithPrefix

InitDemux == DemuxInit /\ SessionIdle /\ StreamIdle /\ LogsIdle /\ MonitorIdle /\ RunIdle /\ ErrIdle /\ OptIdle /\ CallIdle

SpecDemux == InitDemux /\ [][DemuxNext]_vars

SessionNext ==
    \/ ContainerExecAttachTerminal
    \/ StartBegin
    \/ \E t \in Tasks : TaskCopyChunk(t)
    \/ \E t \in Tasks : TaskCopyEnds(t)
    \/ \E t \in Tasks : TaskSend(t)
    \/ StartFinish
    \/ CallerClose

InitSession == SessionInit /\ DemuxIdle /\ StreamIdle /\ LogsIdle /\ MonitorIdle /\ RunIdle /\ ErrIdle /\ OptIdle /\ CallIdle

SpecSession == InitSession /\ [][SessionNext]_vars

StreamNext ==
    \/ PullImage
    \/ ContainerGetStatsChan
    \/ ProducerSelect
    \/ ProducerDecode
    \/ ProducerSend
    \/ ConsumerStops
    \/ ContextDone

InitStream == StreamInit /\ DemuxIdle /\ SessionIdle /\ LogsIdle /\ MonitorIdle /\ RunIdle /\ ErrIdle /\ OptIdle /\ CallIdle

SpecStream == InitStream /\ [][StreamNext]_vars

LogsNext ==
    \/ GetContainerLogs
    \/ TeeRead
    \/ TeePipeWrite
    \/ TeePipeWriteReturns
    \/ TeeLogWrite
    \/ CallerRead
    \/ CallerCloseLogs

InitLogs == LogsInit /\ DemuxIdle /\ SessionIdle /\ StreamIdle /\ MonitorIdle /\ RunIdle /\ ErrIdle /\ OptIdle /\ CallIdle

SpecLogs == InitLogs /\ [][LogsNext]_vars

MonitorNext ==
    \/ \E m \in Monitors : MonitorSize(m)
    \/ \E m \in Monitors : MonitorQuery(m)
    \/ \E m \in Monitors : MonitorSend(m)

InitMonitor == MonitorIdle /\ DemuxIdle /\ SessionCreated /\ StreamIdle /\ LogsIdle /\ RunIdle /\ ErrIdle /\ OptIdle /\ CallIdle

SpecMonitor == InitMonitor /\ [][MonitorNext]_vars

RunNext ==
    \/ RunAndWait
    \/ RunAndWaitSelect
    \/ RunAsync
    \/ RunAsyncSelect
    \/ AsyncReceive
    \/ ContainerExits
    \/ WaitFails
    \/ RunContextDone

InitRun == RunIdle /\ DemuxIdle /\ SessionIdle /\ StreamIdle /\ LogsIdle /\ MonitorIdle /\ ErrIdle /\ OptIdle /\ CallIdle

SpecRun == InitRun /\ [][RunNext]_vars

ErrdefsNext == WrapCall \/ IsCall

InitErrdefs ==
    ErrInit /\ DemuxIdle /\ SessionIdle /\ StreamIdle /\ LogsIdle /\ MonitorIdle /\ RunIdle /\ OptIdle /\ CallIdle

SpecErrdefs == InitErrdefs /\ [][ErrdefsNext]_vars

CallsNext == CallContainerCreate \/ CallContainerStart \/ CallRun

InitCalls ==
    CallIdle /\ DemuxIdle /\ SessionIdle /\ StreamIdle /\ LogsIdle /\ MonitorIdle /\ RunIdle /\ ErrIdle /\ OptIdle

SpecCalls == InitCalls /\ [][CallsNext]_vars

OptionsNext ==
    \/ SetContainerOptions
    \/ SetHostOptions
    \/ SetNetworkOptions
    \/ SetPlatformOptions

InitOptions ==
    OptIdle /\ DemuxIdle /\ SessionIdle /\ StreamIdle /\ LogsIdle /\ MonitorIdle /\ RunIdle /\ ErrIdle /\ CallIdle

SpecOptions == InitOptions /\ [][OptionsNext]_vars

\* the scheduler runs the producer task whenever it can take a step, and a
\* consumer that is receiving takes the value offered; nothing makes a
\* consumer that stopped receive again
FairStream ==
    /\ SpecStream
    /\ WF_vars(ProducerSelect)
    /\ WF_vars(ProducerDecode)
    /\ WF_vars(ProducerSend)

\* the scheduler runs the tee task whenever it can take a step, and the
\* caller keeps reading; nothing makes the raw log stream deliver or end
FairLogs ==
    /\ SpecLogs
    /\ WF_vars(TeeRead)
    /\ WF_vars(TeePipeWrite)
    /\ WF_vars(TeePipeWriteReturns)
    /\ WF_vars(TeeLogWrite)
    /\ WF_vars(CallerRead)

\* the scheduler runs a task that can send and a Start that can receive; it
\* cannot make a copy task's source end, nor the caller call anything
FairSession ==
    /\ SpecSession
    /\ WF_vars(StartFinish)
    /\ \A t \in Tasks : WF_vars(TaskSend(t))

-----------------------------------------------------------------------------
(* Properties of the demultiplexer.                                        *)

RECURSIVE SumLens(_)
\* the payload bytes of a sequence of frames
SumLens(fs) == IF fs = <<>> THEN 0 ELSE Len(Head(fs).payload) + SumLens(Tail(fs))

\* the payloads of the frames tagged t, each after pfx, in source order
Tagged(fs, t, pfx) ==
    Concat([i \in 1..Len(fs) |-> IF fs[i].tag = t THEN pfx \o fs[i].payload ELSE <<>>])

\* what both channels leave in one shared sink: every frame, in source order
Interleaved(fs, outPfx, errPfx) ==
    Concat([i \in 1..Len(fs) |->
              (IF fs[i].tag = 1 THEN outPfx ELSE errPfx) \o fs[i].payload])

\* every frame is tagged STDOUT or STDERR
OutErrOnly(fs) == \A i \in 1..Len(fs) : fs[i].tag \in {1, 2}

\* a source of well-formed STDOUT/STDERR frames, read to its end, with sinks that take every write
WellFormedRun == OutErrOnly(frames) /\ tail = <<>> /\ env.srcEnd = "EOF" /\ env.bad = "none"

\* C1: for every finite sequence of well-formed frames tagged STDOUT or STDERR,
\* Copy returns no error, the stdout sink holds exactly the STDOUT payloads in
\* order, the stderr sink exactly the STDERR payloads, and the returned count
\* is the sum of the payload lengths (no header byte is written or counted).
C1_CopyRoutesFrames ==
    (op = "Copy" /\ WellFormedRun /\ lc.stdout # lc.stderr) =>
        /\ ret.err = Nil
        /\ sinks[lc.stdout] = Tagged(frames, 1, <<>>)
        /\ sinks[lc.stderr] = Tagged(frames, 2, <<>>)
        /\ ret.written = SumLens(frames)

\* C1's case: a STDOUT frame then a STDERR frame, both with payload, copied to two sinks
C1_Witness ==
    /\ op = "Copy" /\ WellFormedRun /\ lc.stdout # lc.stderr
    /\ Len(frames) = 2 /\ frames[1].tag = 1 /\ frames[2].tag = 2
    /\ Len(sinks.out) = 2 /\ Len(sinks.err) = 2
    /\ ret.written = 4

TruncatedRun ==
    /\ OutErrOnly(frames)
    /\ tail # <<>> => tail[1] \in {1, 2}
    /\ env.srcEnd = "EOF" /\ env.bad = "none"

C14_OrderPreserved ==
    (op = "Copy" /\ WellFormedRun) =>
        IF lcArgs.stderr = Nil
        THEN /\ lc.stderr = lcArgs.stdout
             /\ sinks[lcArgs.stdout] = Interleaved(frames, <<>>, <<>>)
             /\ sinks.err = <<>>
        ELSE /\ sinks[lcArgs.stdout] = Tagged(frames, 1, <<>>)
             /\ sinks[lcArgs.stderr] = Tagged(frames, 2, <<>>)

\* C14's case: a STDERR frame then a STDOUT frame copied by a copier made with a nil stderr
C14_Witness ==
    /\ op = "Copy" /\ WellFormedRun /\ lcArgs.stderr = Nil
    /\ Len(frames) = 2 /\ frames[1].tag = 2 /\ frames[2].tag = 1
    /\ Len(frames[1].payload) = 2 /\ Len(frames[2].payload) = 2
    /\ sinks.out = frames[1].payload \o frames[2].payload

\* the call's prefix for a frame's channel (none for Copy)
PrefixOf(f) ==
    IF op = "CopyWithPrefix"
    THEN (IF f.tag = 2 THEN env.stderrPrefix ELSE env.stdoutPrefix)
    ELSE <<>>

\* what the first k frames leave in the sink id
SinkAfter(id, k) ==
    Concat([i \in 1..k |->
              IF (IF frames[i].tag = 2 THEN lc.stderr ELSE lc.stdout) = id
              THEN PrefixOf(frames[i]) \o frames[i].payload ELSE <<>>])

\* the frames written when the call returned: the sinks hold exactly the first k
FramesWritten ==
    CHOOSE k \in 0..Len(frames) :
        /\ \A id \in {"out", "err"} : sinks[id] = SinkAfter(id, k)
        /\ \A j \in 0..(k - 1) : \E id \in {"out", "err"} : sinks[id] # SinkAfter(id, j)

\* the call ended with an error of the source or of a sink
IOErrorRun ==
    /\ op \in {"Copy", "CopyWithPrefix"}
    /\ OutErrOnly(frames) /\ tail = <<>>
    /\ ret.err \in {"ErrSource", "ErrShortWrite"}

\* C15: Copy and CopyWithPrefix stop at the first error of the source or of
\* either sink: that error is returned, nothing is written after it, and the
\* returned count is the payload bytes of the frames written before it.
C15_AsStated ==
    IOErrorRun =>
        /\ \E k \in 0..Len(frames) : \A id \in {"out", "err"} : sinks[id] = SinkAfter(id, k)
        /\ ret.written = SumLens(SubSeq(frames, 1, FramesWritten))

\* the sink a frame is routed to
SinkOf(f) == IF f.tag = 2 THEN lc.stderr ELSE lc.stdout

\* the frames routed to the failing sink
FailingFrames == {i \in 1..Len(frames) : SinkOf(frames[i]) = env.bad}

\* the frames before the first error of the run: those before the first frame
\* of the failing sink, or all of them when the source fails after them
BeforeFirstError ==
    IF FailingFrames = {} THEN Len(frames)
    ELSE (CHOOSE i \in FailingFrames : \A j \in FailingFrames : i <= j) - 1

\* C15 as amended: Copy and CopyWithPrefix stop at the first error of the
\* source or of either sink: that error is returned, the sinks hold the frames
\* before it and nothing else, and the returned count is 0.
C15_StopsAtFirstError ==
    (op \in {"Copy", "CopyWithPrefix"} /\ OutErrOnly(frames) /\ tail = <<>>
       /\ (FailingFrames # {} \/ env.srcEnd # "EOF")) =>
        /\ ret.err = IF FailingFrames # {} THEN "ErrShortWrite" ELSE env.srcEnd
        /\ \A id \in {"out", "err"} : sinks[id] = SinkAfter(id, BeforeFirstError)
        /\ ret.written = 0

\* C15's case: CopyWithPrefix wrote a prefixed STDOUT frame, then the stderr sink failed
C15_Witness ==
    /\ op = "CopyWithPrefix" /\ env.bad = "err" /\ lc.stderr = "err"
    /\ Len(frames) = 2 /\ frames[1].tag = 1 /\ frames[2].tag = 2
    /\ Len(frames[1].payload) = 2
    /\ env.stdoutPrefix # <<>>
    /\ sinks.out = env.stdoutPrefix \o frames[1].payload /\ sinks.err = <<>>
    /\ ret.err = "ErrShortWrite" /\ ret.written = 0

\* a source of complete frames of any tag, read to its end, with sinks that
\* take every write
AnyTagRun == tail = <<>> /\ env.srcEnd = "EOF" /\ env.bad = "none"

\* the payloads of the frames whose tag is in ts, in source order
Routed(fs, ts) ==
    Concat([i \in 1..Len(fs) |-> IF fs[i].tag \in ts THEN fs[i].payload ELSE <<>>])

\* the frames before the first one tagged 3 (systemerr) or higher; all of
\* them when there is none
BeforeBadTag(fs) ==
    LET stops == {i \in 1..Len(fs) : fs[i].tag >= 3}
    IN  IF stops = {} THEN fs
        ELSE SubSeq(fs, 1, (CHOOSE i \in stops : \A j \in stops : i <= j) - 1)

\* the tag that ends the copy, 1 when none does
BadTag(fs) ==
    IF Len(BeforeBadTag(fs)) = Len(fs) THEN 1 ELSE fs[Len(BeforeBadTag(fs)) + 1].tag

\* C13 as stated: a frame tagged other than STDOUT or STDERR is no error; its
\* payload goes to a default sink and demultiplexing continues with the next
\* frame.
C13_AsStated ==
    (op = "Copy" /\ AnyTagRun) =>
        /\ ret.err = Nil
        /\ ret.written = SumLens(frames)

\* C13 as amended: a frame tagged 0 (stdin) is no error and goes to the stdout
\* sink, and demultiplexing continues; a frame tagged 3 (systemerr) ends the
\* copy with an error and the count so far, its payload written nowhere; a
\* frame tagged above 3 ends the copy with an error and count 0. The frames
\* before the ending one have been routed.
C13_OnlyStdinTagIsDefaulted ==
    (op = "Copy" /\ AnyTagRun /\ lc.stdout # lc.stderr) =>
        /\ sinks[lc.stdout] = Routed(BeforeBadTag(frames), {0, 1})
        /\ sinks[lc.stderr] = Routed(BeforeBadTag(frames), {2})
        /\ BadTag(frames) < 3 => ret.err = Nil /\ ret.written = SumLens(frames)
        /\ BadTag(frames) = 3 =>
              /\ ret.err = "ErrorFromDaemonInStream"
              /\ ret.written = SumLens(BeforeBadTag(frames))
        /\ BadTag(frames) > 3 => ret.err = "UnrecognizedInputHeader" /\ ret.written = 0

\* C13's case: a stdin-tagged frame was written to the stdout sink, then a
\* systemerr-tagged frame ended the copy
C13_Witness ==
    /\ op = "Copy" /\ AnyTagRun /\ lc.stdout # lc.stderr
    /\ Len(frames) = 2 /\ frames[1].tag = 0 /\ frames[2].tag = 3
    /\ Len(frames[1].payload) = 2 /\ Len(frames[2].payload) = 2
    /\ sinks.out = frames[1].payload /\ sinks.err = <<>>
    /\ ret.err = "ErrorFromDaemonInStream" /\ ret.written = 2

-----------------------------------------------------------------------------
(* Properties of the interactive session.                                  *)

\* C4: over any sequence of Close calls on one session (the Close deferred in
\* Start, the caller's own deferred Close), the terminal restore operation is
\* executed exactly once: a second Close performs no second restoration.
C4_AsStated == restoreCalls <= 1

C6_StartReturnsOnFirstTask ==
    (\E t \in Tasks : taskPc[t] \in {"sending", "done"}) ~> (startPc = "returned")

\* C6's case: Start has returned while the other task is still copying
C6_Witness ==
    /\ startPc = "returned"
    /\ taskPc["out"] = "done"
    /\ taskPc["in"] = "copying"

\* C10: when the switch to raw mode fails, NewSession returns an error and no
\* session: no saved state, the terminal mode unchanged, nothing restored
\* later; and ContainerExecAttachTerminal has closed the hijacked connection
\* before returning its error.
C10_FailedOpenOwnsNothing ==
    attachRet = "errSession" =>
        /\ hijack = "closed"
        /\ oldState = Nil
        /\ termMode = origMode
        /\ startPc = "idle"
        /\ restoreCalls = 0

\* C10's case: the attach succeeded and NewSession failed
C10_Witness == attachRet = "errSession" /\ hijack = "closed" /\ termMode = "cooked"

\* Close has run on the session, by the caller or at the exit of Start
SessionClosed == restoreCalls > 0

\* C11: Created -> Running -> Closed with no re-entry to Running: once Close
\* has run (explicitly or via Start's exit), a later call of Start on the same
\* session does not start the copy tasks again.
C11_AsStated == [][SessionClosed => starts' = starts]_vars

\* C16: every error inside the session manager reaches the immediate caller,
\* none is dropped: when the terminal restore at Start's exit fails, or a copy
\* task ended with an error, Start returns an error.
C16_AsStated ==
    (startPc = "returned" /\ starts = 1 /\ closeCalls = 0) =>
        /\ restored = "failed" => startRet # Nil
        /\ (\E t \in Tasks : taskPc[t] = "done" /\ taskErr[t] # Nil) => startRet # Nil

-----------------------------------------------------------------------------
(* Properties of the size monitor.                                         *)

\* MonitorSize was called once on the session
OneMonitor == monPc[1] # "idle" /\ \A m \in Monitors \ {1} : monPc[m] = "idle"

\* the size queries that failed
FailedQueries == {i \in 1..Len(queries) : ~queries[i].ok}

\* the (height, width) pairs of the successful queries, in query order
SizesQueried ==
    LET good == SelectSeq(queries, LAMBDA q : q.ok)
    IN  [i \in 1..Len(good) |-> <<good[i].height, good[i].width>>]

\* C12: the task started by MonitorSize terminates and closes its output
\* channel the first time a size query fails, with no retry; every value it
\* delivered before is a (height, width) pair of a successful query, in query
\* order.
C12_MonitorStopsAtFirstFailure ==
    OneMonitor =>
        /\ monPanic = Nil
        /\ (FailedQueries # {}) <=> (monPc[1] = "done")
        /\ (monPc[1] = "done") <=> resizeClosed
        /\ FailedQueries \subseteq {Len(queries)}
        /\ resizeGot \o (IF monPc[1] = "send" THEN <<monPending[1]>> ELSE <<>>)
              = SizesQueried

\* C12's case: two sizes of different width delivered, then a failed query ended the task
C12_Witness ==
    /\ OneMonitor
    /\ monPc[1] = "done" /\ resizeClosed
    /\ resizeGot = <<(<<24, 80>>), (<<24, 100>>)>>
    /\ Len(queries) = 3 /\ ~queries[3].ok

-----------------------------------------------------------------------------
(* Properties of the record streams.                                       *)

\* the stream holds a well-formed record whose error field is non-empty
HasErrorRec(its) == \E i \in 1..Len(its) : its[i] \in RecSet /\ its[i].error # ""

\* the first such record follows well-formed values only
ErrorRecDecoded(its) ==
    \E i \in 1..Len(its) :
        /\ its[i] \in RecSet /\ its[i].error # ""
        /\ \A j \in 1..(i - 1) : its[j] \in RecSet

AllRecs(its) == \A i \in 1..Len(its) : its[i] \in RecSet

\* C7: PullImage returns a non-nil error whenever the progress stream holds a
\* well-formed record with a non-empty error field (the pull error itself when
\* every value up to that record decoded); it returns nil only if no record
\* carries an error.
C7_ErrorRecordFailsPull ==
    pullRet # "none" =>
        /\ HasErrorRec(items) => pullRet # Nil
        /\ (ErrorRecDecoded(items) /\ pullRet # "ErrEngine") => pullRet = "PullError"

\* C7's case: a status record, then a record carrying an error; all decoded
C7_Witness ==
    /\ pullRet = "PullError"
    /\ Len(items) = 2 /\ jtail = <<>>
    /\ items[1] = [status |-> "pulling", error |-> ""]
    /\ items[2] = [status |-> "pulling", error |-> "boom"]
    /\ imageOut = <<"pulling">>

\* C8: for PullImage's loop and the stats producer, the end of the stream
\* between complete values is normal termination (no error returned, none
\* sent), and a stream that ends inside a value is reported as an error.
C8_CleanEOFIsNotAnError ==
    /\ (pullRet \notin {"none", "ErrEngine"} /\ AllRecs(items) /\ ~HasErrorRec(items)) =>
          pullRet = IF jtail = <<>> THEN Nil ELSE "ErrUnexpectedEOF"
    /\ (prodPc = "done" /\ ~ctxDone /\ AllRecs(items)) =>
          /\ delivered = items
          /\ errSent = IF jtail = <<>> THEN <<>> ELSE <<"ErrUnexpectedEOF">>

\* C8's case: both consumers read a stream of a record and a half
C8_Witness ==
    /\ Len(items) = 1 /\ AllRecs(items) /\ ~HasErrorRec(items) /\ jtail # <<>>
    /\ pullRet = "ErrUnexpectedEOF"
    /\ prodPc = "done" /\ ~ctxDone
    /\ delivered = items /\ errSent = <<"ErrUnexpectedEOF">>

\* C20: once the context is cancelled, the stream has ended or a decode error
\* has occurred, the producer task eventually terminates and closes both the
\* stats channel and the error channel, also when the consumer has stopped
\* receiving from the stats channel.
C20_AsStated ==
    ctxDone ~> (prodPc = "done" /\ {"statsCh", "errCh"} \subseteq closed)

-----------------------------------------------------------------------------
(* Properties of the log tee.                                              *)

\* C9 as stated: the tee task closes the pipe's write end on every exit
\* path, so a caller that keeps reading the returned reader always eventually
\* observes end-of-stream.
C9_AsStated == (logsRet = "ok") ~> (callerEOF \/ prClosed)

\* C9 as amended: the tee task closes the pipe's write end and the raw log
\* stream on every exit path, so a caller that keeps reading observes
\* end-of-stream once the raw stream has ended or failed; while the raw
\* stream stays open and silent the task stays in its read.
C9_TeeClosesPipeOnExit ==
    /\ [](teePc = "done" => (pwClosed /\ rcClosed))
    /\ (logsRet = "ok" /\ rcEnd # "open") ~> (callerEOF \/ prClosed)

\* C9's case: the log writer failed on the second chunk and the caller read on to EOF
C9_Witness ==
    /\ teePc = "done" /\ teeErr = "ErrLogWriter"
    /\ Len(callerGot) = 2 /\ callerEOF

-----------------------------------------------------------------------------
(* Properties of RunAndWait and RunAsync.                                  *)

\* C17: RunAndWait performs create, then start, then wait, in that order; a
\* failed create prevents start and a failed start prevents wait; it returns
\* nil if and only if the container was created, started and its select
\* received exit status 0, and an error when the select takes a non-zero
\* status, a wait error or the done context.
C17_RunAndWaitOrder ==
    runOp = "RunAndWait" =>
        /\ engineCalls \in {<<>>, <<"create">>, <<"create", "start">>,
                            <<"create", "start", "wait">>}
        /\ runIn.cfgNil => engineCalls = <<>>
        /\ (~runIn.cfgNil /\ runIn.create # "ok") =>
              engineCalls = <<"create">> /\ runPc = "returned" /\ runRet # NoError
        /\ (~runIn.cfgNil /\ runIn.create = "ok" /\ runIn.start # "ok") =>
              engineCalls = <<"create", "start">> /\ runPc = "returned" /\ runRet # NoError
        /\ runPc = "returned" =>
              /\ runRet = NoError <=>
                    /\ engineCalls = <<"create", "start", "wait">>
                    /\ runCase = [case |-> "status", code |-> 0]
              /\ (runCase.case = "status" /\ runCase.code # 0) => runRet = ContainerError("run")
              /\ runCase.case = "err" => runRet = ContainerError("wait")
              /\ runCase.case = "ctx" => runRet \in {ErrTimeout, ErrCanceled}

\* C17's case: created, started, waited, and the container reported status 1
C17_Witness ==
    /\ runOp = "RunAndWait" /\ runPc = "returned"
    /\ engineCalls = <<"create", "start", "wait">>
    /\ container = "exited"
    /\ runCase = [case |-> "status", code |-> 1]
    /\ runRet = ContainerError("run")

\* C18: when the context's deadline expires while RunAndWait waits for a
\* container that is still running, the error returned matches ErrTimeout, and
\* when the context is cancelled, ErrCanceled, in every interleaving of the
\* context's done signal with the engine's wait-error channel.
C18_AsStated ==
    (runOp = "RunAndWait" /\ runPc = "returned" /\ container = "running"
       /\ ctxErr # NoError) =>
        /\ ctxErr = DeadlineExceeded => ErrorsIs(runRet, ErrTimeout)
        /\ ctxErr = Canceled => ErrorsIs(runRet, ErrCanceled)

\* C19: the channel returned by a successful RunAsync receives the container's
\* exit error if there is one (non-nil for a failed wait, a done context or a
\* container that finished unsuccessfully, nil for one that finished
\* successfully) and is closed when the container finishes.
C19_AsStated ==
    (runOp = "RunAsync" /\ runPc = "done") =>
        /\ resultClosed
        /\ \A i \in 1..Len(resultCh \o asyncGot) :
              ((resultCh \o asyncGot)[i] = NoError) <=>
                  (runCase = [case |-> "status", code |-> 0])

-----------------------------------------------------------------------------
(* errdefs: which errors answer to which sentinels.                        *)

\* the sentinel the claim gives to a typed error
OwnSentinel(err) ==
    IF err = ResourceNotFoundError THEN {ErrNotFound}
    ELSE IF err = ResourceExistsError THEN {ErrAlreadyExists}
    ELSE IF err \in {ConfigError, ValidationError} THEN {ErrInvalidConfig}
    ELSE IF err = DaemonNotRunningError THEN {ErrDaemonNotRunning}
    ELSE IF err \in {ErrTimeout, ErrCanceled} THEN {err}
    ELSE {}

\* C21: under errors.Is a typed error matches its own sentinel and no other
\* sentinel (ResourceNotFoundError ErrNotFound, ResourceExistsError
\* ErrAlreadyExists, ConfigError and ValidationError ErrInvalidConfig,
\* DaemonNotRunningError ErrDaemonNotRunning), ErrTimeout and ErrCanceled
\* match only themselves, and Wrap(err, msg) of an error err matches err
C21_TypedErrorsMatchOwnSentinel ==
    isGot # "none" =>
        /\ (OwnSentinel(errVal) # {} /\ isTarget \in Sentinels)
              => (isGot = "true" <=> isTarget \in OwnSentinel(errVal))
        /\ (errInner # NoError /\ isTarget = errInner) => isGot = "true"

\* a wrapped ValidationError was tested against the error it wraps, after
\* typed errors and sentinels were tested against sentinels
C21_Witness ==
    /\ isGot = "true"
    /\ errInner = ValidationError
    /\ isTarget = errInner
    /\ errVal = Wrap(ValidationError, "context")

-----------------------------------------------------------------------------
(* ContainerCreate and ContainerStart on one config.                       *)

\* the calls of ContainerCreate made so far
CreateCalls == {i \in 1..Len(callLog) : callLog[i].op = "ContainerCreate"}

\* C22: ContainerCreate classifies every failure into one error kind and
\* leaves the config's Id as it was: a nil config gives a ValidationError
\* without an engine call, the engine's not-found a ResourceNotFoundError for
\* the image, its conflict on a name already in use a ResourceExistsError for
\* the container, anything else a ContainerError with Op "create"; only on
\* success is Id set, to the ID the engine returned.
C22_CreateClassifies ==
    \A i \in CreateCalls :
        LET e == callLog[i]
        IN  /\ e.cfgNil =>
                  e.err = ValidationError /\ e.engine = <<>> /\ e.idAfter = e.idBefore
            /\ ~e.cfgNil =>
                  /\ e.engine = <<"create">>
                  /\ e.create = "notFound" =>
                        e.err = [type |-> "ResourceNotFoundError", op |-> "image", wraps |-> <<>>]
                  /\ e.create = "conflictInUse" =>
                        e.err = [type |-> "ResourceExistsError", op |-> "container", wraps |-> <<>>]
                  /\ e.create \in {"conflict", "inUse", "other"} =>
                        e.err = [type |-> "ContainerError", op |-> "create", wraps |-> <<>>]
                  /\ e.create = "ok" => e.err = NoError /\ e.idAfter = e.resID
                  /\ e.create # "ok" => e.err # NoError /\ e.idAfter = e.idBefore

\* C22's case: a create that succeeded set Id, and a later create that met a
\* name conflict left that Id alone
C22_Witness ==
    \E i, j \in CreateCalls :
        /\ i < j
        /\ callLog[i].create = "ok" /\ ~callLog[i].cfgNil /\ callLog[i].idAfter = "c2"
        /\ callLog[j].create = "conflictInUse" /\ ~callLog[j].cfgNil
        /\ callLog[j].idAfter = "c2"
        /\ callLog[j].err.type = "ResourceExistsError"

\* the calls that asked the engine to start a container
EngineStarts ==
    {i \in 1..Len(callLog) : \E k \in 1..Len(callLog[i].engine) : callLog[i].engine[k] = "start"}

\* the calls in which a create succeeded and set Id
CreatedAt ==
    {j \in 1..Len(callLog) :
        /\ callLog[j].op \in {"ContainerCreate", "Run"}
        /\ callLog[j].engine # <<>> /\ Head(callLog[j].engine) = "create"
        /\ callLog[j].create = "ok"
        /\ callLog[j].idAfter = callLog[j].resID}

\* C30: ContainerStart with a nil config or an empty Id returns a
\* ValidationError without an engine call, so in every sequence of client
\* calls on one config an engine start comes after a successful create that
\* set Id.
C30_StartOnlyAfterCreate ==
    /\ \A i \in 1..Len(callLog) :
          (callLog[i].op = "ContainerStart" /\ (callLog[i].cfgNil \/ callLog[i].idBefore = ""))
              => (callLog[i].err = ValidationError /\ callLog[i].engine = <<>>)
    /\ \A i \in EngineStarts :
          /\ \E j \in CreatedAt : j <= i
          /\ callLog[i].idAfter # ""

\* C30's case: a start was refused on the fresh config, then a create
\* succeeded, then a start reached the engine
C30_Witness ==
    /\ Len(callLog) = 3
    /\ callLog[1].op = "ContainerStart" /\ ~callLog[1].cfgNil
    /\ callLog[1].err = ValidationError /\ callLog[1].engine = <<>>
    /\ callLog[2].op = "ContainerCreate" /\ callLog[2].err = NoError
    /\ callLog[3].op = "ContainerStart" /\ callLog[3].engine = <<"start">>

-----------------------------------------------------------------------------
(* The Set*Options methods of ContainerConfig.                             *)

\* the setters of one constructor among those passed, in the order passed
Of(fn) == SelectSeq(passed, LAMBDA s : s.fn = fn)

\* the value a field has after the setters q of its constructor: that of the
\* last one, or the zero value
LastVal(q, zero) == IF q = <<>> THEN zero ELSE q[Len(q)].val

\* the map the setters q of a keyed constructor leave: for every key the
\* value of the last setter with that key
LastPerKey(q) ==
    {<<q[i].key, q[i].val>> : i \in {i \in 1..Len(q) : \A j \in (i+1)..Len(q) : q[j].key # q[i].key}}

\* the fields other than DeviceCgroupRules hold what the setters passed, nil
\* ones skipped, give when applied in order: scalars and map keys the last
\* value, Env every entry
OtherFieldsFollowSetters ==
    /\ cc.WorkingDir = LastVal(Of("WorkingDir"), "")
    /\ cc.Env = [i \in 1..Len(Of("Env")) |-> <<Of("Env")[i].key, Of("Env")[i].val>>]
    /\ cc.Labels = LastPerKey(Of("Label"))
    /\ cc.Memory = (IF Of("Memory") = <<>> THEN 0 ELSE Of("Memory")[Len(Of("Memory"))].n)
    /\ cc.RestartPolicy =
          (IF Of("RestartPolicy") = <<>> THEN [Name |-> "", MaximumRetryCount |-> 0]
           ELSE [Name |-> Of("RestartPolicy")[Len(Of("RestartPolicy"))].val,
                 MaximumRetryCount |-> Of("RestartPolicy")[Len(Of("RestartPolicy"))].n])
    /\ cc.EndpointsConfig = LastPerKey(Of("Endpoint"))
    /\ cc.Architecture = LastVal(Of("Arch"), "")
    /\ cc.OS = LastVal(Of("OS"), "")

DocumentedModes == {"no", "on-failure", "always", "unless-stopped"}

\* C24: RestartPolicy(mode, n) sets the host config's restart policy to the
\* mode chosen for each of the documented modes "no", "on-failure", "always"
\* and "unless-stopped", with MaximumRetryCount = n; any other mode falls
\* back to "no".
C24_AsStated ==
    Of("RestartPolicy") # <<>> =>
        LET s == Of("RestartPolicy")[Len(Of("RestartPolicy"))]
        IN  /\ cc.RestartPolicy.MaximumRetryCount = s.n
            /\ cc.RestartPolicy.Name = (IF s.key \in DocumentedModes THEN s.key ELSE "no")

-----------------------------------------------------------------------------
(* Session.Start and its two copy tasks.                                   *)

\* the tasks whose send on errCh has completed
Reported == {t \in Tasks : taskPc[t] = "done"}

\* C25: Start's result is decided by the copy task that finishes first alone:
\* nil if that task ended with EOF, an error wrapping that task's I/O error
\* otherwise, in every interleaving of the two tasks; the task that finishes
\* second never changes the result.
C25_FirstTaskDecides ==
    [][/\ (startPc = "waiting" /\ startPc' = "returned") =>
             \E t \in Tasks :
                 /\ Reported = {t}
                 /\ startRet' = (IF taskErr[t] = Nil THEN Nil ELSE ErrDuringIO(taskErr[t]))
       /\ (startPc = "returned" /\ startPc' = "returned") => startRet' = startRet
      ]_vars

\* C25's case: Start returned nil for the task that met EOF first, and the
\* other task then reported a write error
C25_Witness ==
    /\ startPc = "returned" /\ startRet = Nil
    /\ Reported = Tasks
    /\ taskErr["out"] = Nil /\ taskErr["in"] = "ErrWrite"
    /\ errCh = <<"ErrWrite">>

\* C26: neither copy task blocks forever on reporting its result: errCh has
\* capacity 1 and Start receives once, so once a task's copy loop has ended
\* its send completes, in every interleaving, also after Start has returned.
\* (Stated for the tasks of the session's last Start.)
C26_SendsComplete ==
    \A t \in Tasks :
        (starts = MaxStarts /\ taskPc[t] = "sending") ~> (taskPc[t] = "done")

\* C26's case: Start has returned on the first report and the second task's
\* send has completed into the buffer nobody reads
C26_Witness ==
    /\ starts = MaxStarts
    /\ startPc = "returned"
    /\ \A t \in Tasks : taskPc[t] = "done"
    /\ Len(errCh) = 1

-----------------------------------------------------------------------------
(* The stats channel and its error channel.                                *)

-----------------------------------------------------------------------------
(* GetContainerLogs: the reader, the log writer and the tee task.          *)

\* C28: the bytes a caller reads from the reader GetContainerLogs returns are
\* always a prefix of the raw log stream in source order; the configured log
\* writer is offered the same chunks in the same order (each one once the
\* caller has taken it); and the caller reads the whole stream before
\* end-of-stream whenever the source ends cleanly, the caller keeps reading
\* and the log writer never fails.
C28_ReaderAndLogWriter ==
    /\ [](/\ Len(callerGot) <= Len(rcData)
          /\ callerGot = SubSeq(rcData, 1, Len(callerGot))
          /\ Len(logOut) <= Len(callerGot)
          /\ logOut = SubSeq(callerGot, 1, Len(logOut))
          /\ Len(callerGot) <= Len(logOut) + 1
          /\ teePc = "logWrite" => (rcPos = Len(logOut) + 1 /\ rcPos = Len(callerGot))
          /\ (callerEOF /\ teeErr = Nil) => (callerGot = rcData /\ logOut = rcData))
    /\ (logsRet = "ok" /\ rcEnd = "EOF")
          ~> ((callerEOF /\ callerGot = rcData) \/ prClosed \/ teeErr = "ErrLogWriter")

\* C28's case: the source ended cleanly after two chunks, and the caller read
\* both, in order, before end-of-stream, as the log writer was given both
C28_Witness ==
    /\ rcEnd = "EOF" /\ Len(rcData) = 2
    /\ callerEOF /\ callerGot = rcData
    /\ logOut = rcData
    /\ teeErr = Nil /\ ~prClosed

-----------------------------------------------------------------------------
(* Session.MonitorSize called more than once.                              *)

\* C29: the session's resize channel is closed at most once and never sent
\* on after it was closed, for any number of MonitorSize calls on the session
\* and any interleaving of their polling tasks with failing size queries.
C29_AsStated ==
    /\ monPanic # "close of closed channel"
    /\ monPanic # "send on closed channel"

=============================================================================
